---- MODULE Spec2Model ----
(***************************************************************************)
(* Model of the markup document engine of chisel: the HTML entity codec,   *)
(* the tag-tree (html) serializer and parser, the markdown parser and      *)
(* serializer, and the file cache of the HTTP server.  A std::string is a  *)
(* sequence of one-character strings; a position into it is 0-based, as in *)
(* the source.  A TLA+ string cannot hold the grave accent: that one       *)
(* character is written "backtick".                                        *)
(***************************************************************************)
EXTENDS Integers, Sequences, FiniteSets, TLC

VARIABLES
    op_pc,          \* which call of the driver has returned
    input,          \* the text handed to escape_html
    escaped,        \* escape_html(input)
    unescaped,      \* unescape_html(escaped)
    node,           \* the html::Node handed to html::Serializer::serialize
    indent_level,   \* its indent_level argument
    serialized,     \* the string it returned
    html,           \* the text handed to html::Deserializer::deserialize
    parsed,         \* its outcome: a node, or the exception thrown
    markdown,       \* the text handed to markdown::Deserializer::deserialize
    lines,          \* the lines getline split it into
    pos,            \* the line cursor of deserialize's loop
    document,       \* the Document node under construction, then returned
    md_out,         \* outcome of markdown::Serializer::markdown(document)
    html_out,       \* outcome of markdown::Serializer::html(document)
    files,          \* the files under root_dir_: size and last write time
    file_cache_,    \* HttpServerAsync::file_cache_, by resolved path
    current_cache_size_,  \* HttpServerAsync::current_cache_size_
    now,            \* std::chrono::system_clock::now()
    response        \* status of the response to the last request handled

vars == <<op_pc, input, escaped, unescaped, node, indent_level, serialized,
          html, parsed, markdown, lines, pos, document, md_out, html_out,
          files, file_cache_, current_cache_size_, now, response>>

codec_vars == <<input, escaped, unescaped>>
ser_vars == <<node, indent_level, serialized>>
de_vars == <<html, parsed>>
md_vars == <<markdown, lines, pos, document, md_out, html_out>>
http_vars == <<files, file_cache_, current_cache_size_, now, response>>

(***************************************************************************)
(* Bounds of the model.                                                    *)
(***************************************************************************)
MaxTextLen == 3     \* longest text handed to the entity codec
MaxChildren == 1    \* most children of a tag tree handed to serialize
MaxIndent == 1      \* deepest indent_level handed to serialize
MaxTokens == 3      \* most pieces of markup inside the div handed to deserialize
MaxLines == 2       \* most lines of a general markdown text
MaxBlankLines == 3  \* most lines of a markdown text of blank lines
MaxHashes == 8      \* most leading # of a heading candidate
MaxTail == 3        \* longest tail after the # of a heading candidate
MaxImagePart == 2   \* longest alt and src of an image literal
MaxCodeLines == 2   \* most lines inside a fenced code block
MaxLevel == 2       \* highest level of a node built by hand
MaxListLines == 3   \* most lines of a markdown text of list lines
MaxTableLines == 3  \* most lines of a markdown text of table lines
MaxSpans == 3       \* most inline spans of a markdown text of one line
MaxCrlfLines == 2   \* most lines of a markdown text with either line ending

(***************************************************************************)
(* Strings.                                                                *)
(***************************************************************************)
Min(a, b) == IF a < b THEN a ELSE b

\* All strings over the characters S of length at most n.
Strings(S, n) == UNION {[1..k -> S] : k \in 0..n}

\* std::string::substr(i, n): at most n characters from position i.
substr(s, i, n) == SubSeq(s, i + 1, Min(i + n, Len(s)))

\* s.substr(i): the rest of s from position i.
substr_from(s, i) == SubSeq(s, i + 1, Len(s))

\* std::isspace in the "C" locale (the vertical tab has no TLA+ literal).
isspace(c) == c \in {" ", "\t", "\n", "\r", "\f"}

\* std::tolower in the "C" locale, on the letters the model uses.
UpperCase == <<"A", "B", "C", "D", "E", "F", "G", "H", "I", "J", "K", "L", "M", "N", "O", "P", "Q", "R", "S", "T", "U", "V", "W", "X", "Y", "Z">>
LowerCase == <<"a", "b", "c", "d", "e", "f", "g", "h", "i", "j", "k", "l", "m", "n", "o", "p", "q", "r", "s", "t", "u", "v", "w", "x", "y", "z">>
tolower(c) ==
    IF \E i \in 1..Len(UpperCase) : UpperCase[i] = c
    THEN LowerCase[CHOOSE i \in 1..Len(UpperCase) : UpperCase[i] = c]
    ELSE c

\* The characters of the model in ascending order of their code (the order
\* std::string's operator< compares by, hence std::map's key order).
Ascii == <<"\t", "\n", "\r", " ", "!", "\"", "#", "&", "'", "(", ")", "*", "+", "-", ".", "/", "0", "1", "2", "3", "4", "5", "6", "7", "8", "9", ":", ";", "<", "=", ">", "A", "B", "C", "D", "E", "F", "G", "H", "I", "J", "K", "L", "M", "N", "O", "P", "Q", "R", "S", "T", "U", "V", "W", "X", "Y", "Z", "[", "]", "_", "backtick", "a", "b", "c", "d", "e", "f", "g", "h", "i", "j", "k", "l", "m", "n", "o", "p", "q", "r", "s", "t", "u", "v", "w", "x", "y", "z", "|">>
Code(c) == CHOOSE i \in 1..Len(Ascii) : Ascii[i] = c

\* std::string's operator<: lexicographic on the character codes.
RECURSIVE StringLess(_, _)
StringLess(a, b) ==
    IF b = <<>> THEN FALSE
    ELSE IF a = <<>> THEN TRUE
    ELSE IF Head(a) = Head(b) THEN StringLess(Tail(a), Tail(b))
    ELSE Code(Head(a)) < Code(Head(b))

\* s.find(t) == 0 for a non-empty t.
StartsWith(s, t) == Len(s) >= Len(t) /\ SubSeq(s, 1, Len(t)) = t

\* s.find(t) != npos.
Contains(s, t) ==
    \E i \in 0..(Len(s) - Len(t)) : SubSeq(s, i + 1, i + Len(t)) = t

EndsWith(s, t) == Len(s) >= Len(t) /\ SubSeq(s, Len(s) - Len(t) + 1, Len(s)) = t

\* The number of positions of s holding the character c.
Count(s, c) == Cardinality({i \in 1..Len(s) : s[i] = c})

\* std::string(n, c).
RECURSIVE Repeat(_, _)
Repeat(n, c) == IF n <= 0 THEN <<>> ELSE <<c>> \o Repeat(n - 1, c)

\* n copies of the text t, one after the other.
RECURSIVE RepeatText(_, _)
RepeatText(n, t) == IF n <= 0 THEN <<>> ELSE t \o RepeatText(n - 1, t)

(***************************************************************************)
(* Entity codec: html::escape_html and html::unescape_html.                *)
(***************************************************************************)
\* The switch of escape_html: what one character of the input appends.
EscapeChar(c) ==
    CASE c = "&" -> <<"&", "a", "m", "p", ";">>
      [] c = "<" -> <<"&", "l", "t", ";">>
      [] c = ">" -> <<"&", "g", "t", ";">>
      [] c = "\"" -> <<"&", "q", "u", "o", "t", ";">>
      [] c = "'" -> <<"&", "#", "3", "9", ";">>
      [] OTHER -> <<c>>

RECURSIVE escape_html(_)
escape_html(text) ==
    IF text = <<>> THEN <<>>
    ELSE EscapeChar(Head(text)) \o escape_html(Tail(text))

\* The mutant of EntityAt: "&amp;" is decoded but only four characters of
\* it are consumed (i += 3 instead of i += 4).
EntityAtShortAmp(text, i) ==
    IF text[i + 1] = "&" THEN
        IF substr(text, i, 5) = <<"&", "a", "m", "p", ";">> THEN [ch |-> "&", next |-> i + 4]
        ELSE IF substr(text, i, 4) = <<"&", "l", "t", ";">> THEN [ch |-> "<", next |-> i + 4]
        ELSE IF substr(text, i, 4) = <<"&", "g", "t", ";">> THEN [ch |-> ">", next |-> i + 4]
        ELSE IF substr(text, i, 6) = <<"&", "q", "u", "o", "t", ";">> THEN [ch |-> "\"", next |-> i + 6]
        ELSE IF substr(text, i, 5) = <<"&", "#", "3", "9", ";">> THEN [ch |-> "'", next |-> i + 5]
        ELSE [ch |-> text[i + 1], next |-> i + 1]
    ELSE [ch |-> text[i + 1], next |-> i + 1]

\* One iteration of unescape_html's loop at position i: the character it
\* appends and the position of the next iteration (i after ++i).
EntityAt(text, i) ==
    IF text[i + 1] = "&" THEN
        IF substr(text, i, 5) = <<"&", "a", "m", "p", ";">> THEN [ch |-> "&", next |-> i + 5]
        ELSE IF substr(text, i, 4) = <<"&", "l", "t", ";">> THEN [ch |-> "<", next |-> i + 4]
        ELSE IF substr(text, i, 4) = <<"&", "g", "t", ";">> THEN [ch |-> ">", next |-> i + 4]
        ELSE IF substr(text, i, 6) = <<"&", "q", "u", "o", "t", ";">> THEN [ch |-> "\"", next |-> i + 6]
        ELSE IF substr(text, i, 5) = <<"&", "#", "3", "9", ";">> THEN [ch |-> "'", next |-> i + 5]
        ELSE [ch |-> text[i + 1], next |-> i + 1]
    ELSE [ch |-> text[i + 1], next |-> i + 1]

RECURSIVE unescape_from(_, _)
unescape_from(text, i) ==
    IF i >= Len(text) THEN <<>>
    ELSE LET e == EntityAt(text, i)
         IN  <<e.ch>> \o unescape_from(text, e.next)

unescape_html(text) == unescape_from(text, 0)

(***************************************************************************)
(* Tag tree: html::Node and html::Serializer::serialize.                   *)
(***************************************************************************)
\* A std::map<std::string, std::string> is a function on its set of keys.
NoAttributes == [k \in {} |-> <<>>]

\* attributes[key] = value.
Put(attributes, key, value) ==
    [k \in (DOMAIN attributes) \cup {key} |->
        IF k = key THEN value ELSE attributes[k]]

\* html::Node: tag (empty for a bare text node), text, attributes, children.
HtmlNode(tag, text, attributes, children) ==
    [tag |-> tag, text |-> text, attributes |-> attributes, children |-> children]

\* A default-constructed html::Node.
EmptyHtmlNode == HtmlNode(<<>>, <<>>, NoAttributes, <<>>)

\* The mutant of self_closing_tags: br is not in the set.
self_closing_tags_without_br == { <<"i", "m", "g">>, <<"h", "r">> }

self_closing_tags == { <<"i", "m", "g">>, <<"h", "r">>, <<"b", "r">> }

\* The mutant of inline_tags: a is not in the set.
inline_tags_without_a == { <<"s", "t", "r", "o", "n", "g">>, <<"e", "m">>, <<"c", "o", "d", "e">>, <<"s", "p", "a", "n">> }

inline_tags == { <<"s", "t", "r", "o", "n", "g">>, <<"e", "m">>, <<"a">>, <<"c", "o", "d", "e">>, <<"s", "p", "a", "n">> }

\* The keys of a std::map in iteration order: ascending.
RECURSIVE SortedKeys(_)
SortedKeys(K) ==
    IF K = {} THEN <<>>
    ELSE LET first == CHOOSE k \in K : \A o \in K \ {k} : StringLess(k, o)
         IN  <<first>> \o SortedKeys(K \ {first})

\* The loop over node.attributes:  key="escaped value"  for each entry.
RECURSIVE AttributesText(_, _)
AttributesText(attributes, keys) ==
    IF keys = <<>> THEN <<>>
    ELSE <<" ">> \o Head(keys) \o <<"=", "\"">> \o escape_html(attributes[Head(keys)]) \o <<"\"">>
         \o AttributesText(attributes, Tail(keys))

\* The mutant of IsLanguageCode: every code element is emitted raw.
IsAnyCode(n) == n.tag = <<"c", "o", "d", "e">>

\* The condition under which serialize emits node.text unescaped.
IsLanguageCode(n) ==
    /\ n.tag = <<"c", "o", "d", "e">>
    /\ <<"c", "l", "a", "s", "s">> \in DOMAIN n.attributes
    /\ n.attributes[<<"c", "l", "a", "s", "s">>] # <<>>
    /\ StartsWith(n.attributes[<<"c", "l", "a", "s", "s">>], <<"l", "a", "n", "g", "u", "a", "g", "e", "-">>)

RECURSIVE serialize(_, _)
RECURSIVE serialize_children(_, _, _)

\* The loop over node.children of an element at indent_level.
serialize_children(children, is_inline, level) ==
    IF children = <<>> THEN <<>>
    ELSE (IF is_inline THEN <<>> ELSE <<"\n">>)
         \o serialize(Head(children), IF is_inline THEN 0 ELSE level + 1)
         \o serialize_children(Tail(children), is_inline, level)

serialize(n, level) ==
    LET indent == Repeat(level * 2, " ")
    IN  IF n.tag # <<>> THEN
            LET open == indent \o <<"<">> \o n.tag
                        \o AttributesText(n.attributes, SortedKeys(DOMAIN n.attributes))
            IN  IF n.tag \in self_closing_tags THEN open \o <<" ", "/", ">">>
                ELSE LET text == IF n.text # <<>>
                                 THEN IF IsLanguageCode(n) THEN n.text
                                      ELSE escape_html(n.text)
                                 ELSE <<>>
                         is_inline == n.tag \in inline_tags
                         close == IF n.children # <<>> /\ ~is_inline
                                  THEN <<"\n">> \o indent ELSE <<>>
                     IN  open \o <<">">> \o text
                         \o serialize_children(n.children, is_inline, level)
                         \o close \o <<"<", "/">> \o n.tag \o <<">">>
        ELSE IF n.text # <<>> THEN indent \o escape_html(n.text)
        ELSE <<>>

(***************************************************************************)
(* html::Deserializer: deserialize, skip_whitespace, parse_node.           *)
(***************************************************************************)
\* The character of s at 0-based position p.
At(s, p) == s[p + 1]

WhiteSpace == {" ", "\t", "\n", "\r", "\f"}

RECURSIVE skip_whitespace(_, _)
skip_whitespace(s, p) ==
    IF p < Len(s) /\ isspace(At(s, p)) THEN skip_whitespace(s, p + 1) ELSE p

\* while(pos < length && html[pos] is none of stop) ++pos: the position reached.
RECURSIVE ScanUntil(_, _, _)
ScanUntil(s, p, stop) ==
    IF p < Len(s) /\ At(s, p) \notin stop THEN ScanUntil(s, p + 1, stop) ELSE p

\* The characters of s from position p up to position q (excluded), lower-cased.
Lowered(s, p, q) == [i \in 1..(q - p) |-> tolower(s[p + i])]

\* The outcome of a parse: a node and the cursor, or a std::invalid_argument.
Parsed(n, p) == [ok |-> TRUE, node |-> n, pos |-> p, what |-> "", detail |-> <<>>]
\* what() of the exception is the message `what` followed by the text `detail`.
ThrownWith(what, detail) ==
    [ok |-> FALSE, node |-> EmptyHtmlNode, pos |-> 0, what |-> what, detail |-> detail]
Thrown(what) == ThrownWith(what, <<>>)

\* The mutant of parse_value: the value is decoded with unescape_html.
parse_value_decoded(s, p) ==
    IF p < Len(s) /\ At(s, p) = "=" THEN
        LET p2 == skip_whitespace(s, p + 1)
        IN  IF p2 < Len(s) /\ At(s, p2) = "\"" THEN
                LET q == ScanUntil(s, p2 + 1, {"\""})
                IN  [value |-> unescape_html(SubSeq(s, p2 + 2, q)),
                     pos |-> IF q < Len(s) THEN q + 1 ELSE q]
            ELSE
                LET q == ScanUntil(s, p2, {" ", ">", "/"})
                IN  [value |-> unescape_html(SubSeq(s, p2 + 1, q)), pos |-> q]
    ELSE [value |-> <<>>, pos |-> p]

\* The value part of one attribute, the cursor p being after the key and the
\* whitespace that follows it.
parse_value(s, p) ==
    IF p < Len(s) /\ At(s, p) = "=" THEN
        LET p2 == skip_whitespace(s, p + 1)
        IN  IF p2 < Len(s) /\ At(s, p2) = "\"" THEN
                LET q == ScanUntil(s, p2 + 1, {"\""})
                IN  [value |-> SubSeq(s, p2 + 2, q),
                     pos |-> IF q < Len(s) THEN q + 1 ELSE q]
            ELSE
                LET q == ScanUntil(s, p2, {" ", ">", "/"})
                IN  [value |-> SubSeq(s, p2 + 1, q), pos |-> q]
    ELSE [value |-> <<>>, pos |-> p]

\* The attribute loop of parse_node.
RECURSIVE parse_attributes(_, _, _)
parse_attributes(s, p, attributes) ==
    IF p < Len(s) /\ At(s, p) # ">" /\ At(s, p) # "/" THEN
        LET q == ScanUntil(s, p, {"=", ">", "/"} \cup WhiteSpace)
            key == Lowered(s, p, q)
            v == parse_value(s, skip_whitespace(s, q))
        IN  parse_attributes(s, skip_whitespace(s, v.pos),
                             IF key # <<>> THEN Put(attributes, key, v.value)
                             ELSE attributes)
    ELSE [attributes |-> attributes, pos |-> p]

\* The trimming of the final text chunk: find_first_not_of / find_last_not_of.
TrimSet == {" ", "\t", "\n", "\r"}
trimmed_text(text) ==
    LET keep == {i \in 1..Len(text) : text[i] \notin TrimSet}
    IN  IF keep = {} THEN <<>>
        ELSE SubSeq(text, CHOOSE i \in keep : \A j \in keep : i <= j,
                          CHOOSE i \in keep : \A j \in keep : i >= j)

\* The end of parse_node: the closing tag of the element `tag`, at p.
closing_tag(s, p, tag, n) ==
    IF p < Len(s) /\ At(s, p) = "<" /\ p + 1 < Len(s) /\ At(s, p + 1) = "/" THEN
        LET q == ScanUntil(s, p + 2, {">"})
        IN  IF Lowered(s, p + 2, q) # tag
            THEN Thrown("Invalid HTML: Mismatched closing tag")
            ELSE IF q < Len(s) THEN Parsed(n, q + 1)
            ELSE Thrown("Invalid HTML: Unclosed tag")
    ELSE ThrownWith("Invalid HTML: Missing closing tag for ", tag)

RECURSIVE parse_node(_, _)
RECURSIVE parse_body(_, _, _, _)

\* The body loop of parse_node: the cursor p, the pending text chunk and the
\* node so far.  Its outcome carries the pending chunk in `text`.
parse_body(s, p, text, n) ==
    IF p < Len(s) THEN
        IF At(s, p) = "<" THEN
            IF p + 1 < Len(s) /\ At(s, p + 1) = "/"
            THEN [ok |-> TRUE, node |-> n, pos |-> p, text |-> text, what |-> "",
                  detail |-> <<>>]
            ELSE LET n1 == IF text # <<>>
                           THEN [n EXCEPT !.text = unescape_html(text)] ELSE n
                     child == parse_node(s, p)
                 IN  IF ~child.ok
                     THEN [ok |-> FALSE, node |-> n1, pos |-> p, text |-> <<>>,
                           what |-> child.what, detail |-> child.detail]
                     ELSE parse_body(s, child.pos, <<>>,
                              IF child.node.tag # <<>>
                              THEN [n1 EXCEPT !.children = Append(@, child.node)]
                              ELSE n1)
        ELSE parse_body(s, p + 1, Append(text, At(s, p)), n)
    ELSE [ok |-> TRUE, node |-> n, pos |-> p, text |-> text, what |-> "", detail |-> <<>>]

parse_node(s, p0) ==
    LET p1 == skip_whitespace(s, p0)
    IN  IF p1 >= Len(s) \/ At(s, p1) # "<" THEN Parsed(EmptyHtmlNode, p1)
        ELSE IF p1 + 1 >= Len(s)
        THEN Thrown("Invalid HTML: Unexpected end of input")
        ELSE IF At(s, p1 + 1) = "/" THEN Parsed(EmptyHtmlNode, p1 + 1)
        ELSE
          LET q == ScanUntil(s, p1 + 1, {" ", ">", "/"})
              tag == Lowered(s, p1 + 1, q)
          IN  IF tag = <<>> THEN Thrown("Invalid HTML: Empty tag name")
              ELSE
                LET a == parse_attributes(s, skip_whitespace(s, q), NoAttributes)
                    n == HtmlNode(tag, <<>>, a.attributes, <<>>)
                IN  IF a.pos < Len(s) /\ At(s, a.pos) = "/" THEN
                        Parsed(n, IF a.pos + 1 < Len(s) /\ At(s, a.pos + 1) = ">"
                                  THEN a.pos + 2 ELSE a.pos + 1)
                    ELSE IF a.pos < Len(s) /\ At(s, a.pos) = ">" THEN
                        LET b == parse_body(s, a.pos + 1, <<>>, n)
                        IN  IF ~b.ok THEN ThrownWith(b.what, b.detail)
                            ELSE closing_tag(s, b.pos, tag,
                                   IF b.text # <<>>
                                   THEN [b.node EXCEPT !.text =
                                            unescape_html(trimmed_text(b.text))]
                                   ELSE b.node)
                    ELSE Thrown("Invalid HTML: Expected '>' after tag")

\* html::Deserializer::deserialize.
html_deserialize(s) ==
    LET r == parse_node(s, 0)
    IN  IF ~r.ok THEN r
        ELSE IF r.node.tag = <<>>
        THEN Thrown("Invalid HTML: No root element found")
        ELSE r

(***************************************************************************)
(* markdown::Node and the regular expressions of markdown::Deserializer.   *)
(* std::regex is ECMAScript: \s is the isspace class, \w is [A-Za-z0-9_],  *)
(* \d is [0-9], and . matches every character but a line terminator.      *)
(***************************************************************************)
\* markdown::Node: type, text, attributes, children, level (0 by default).
MdNode(type, text, level) ==
    [type |-> type, text |-> text, attributes |-> NoAttributes,
     children |-> <<>>, level |-> level]

Digits == {"0", "1", "2", "3", "4", "5", "6", "7", "8", "9"}
WordChars == {LowerCase[i] : i \in 1..Len(LowerCase)}
             \cup {UpperCase[i] : i \in 1..Len(UpperCase)} \cup Digits \cup {"_"}
LineTerminators == {"\n", "\r"}

Max(S) == CHOOSE x \in S : \A y \in S : x >= y
Least(S) == CHOOSE x \in S : \A y \in S : x <= y

\* while(p < length && s[p] is one of allowed) ++p: the position reached.
RECURSIVE ScanWhile(_, _, _)
ScanWhile(s, p, allowed) ==
    IF p < Len(s) /\ At(s, p) \in allowed THEN ScanWhile(s, p + 1, allowed) ELSE p

\* Whether (.*)$ matches at p: no line terminator from p to the end.
AllDot(s, p) == \A i \in (p + 1)..Len(s) : s[i] \notin LineTerminators

\*  \s+(.+)$  at position p: where group (.+) starts, or -1 without a match.
\* \s+ is greedy and gives characters back until (.+) has something to match.
SpacesThenText(s, p) ==
    LET w == ScanWhile(s, p, WhiteSpace) - p
        ks == {k \in 1..w : p + k < Len(s) /\ AllDot(s, p + k)}
    IN  IF ks = {} THEN -1 ELSE p + Max(ks)

\*  \s*(.*)$  at position p: where group (.*) starts, or -1 without a match.
SpacesThenRest(s, p) ==
    LET w == ScanWhile(s, p, WhiteSpace) - p
        ks == {k \in 0..w : AllDot(s, p + k)}
    IN  IF ks = {} THEN -1 ELSE p + Max(ks)

\* s without its leading and trailing characters of the set.
Strip(s, set) ==
    LET keep == {i \in 1..Len(s) : s[i] \notin set}
    IN  IF keep = {} THEN <<>> ELSE SubSeq(s, Least(keep), Max(keep))

\* regex_match(line, ^\s*[-*_]{3,}\s*$)
is_horizontal_rule(line) ==
    LET core == Strip(line, WhiteSpace)
    IN  Len(core) >= 3 /\ \A i \in 1..Len(core) : core[i] \in {"-", "*", "_"}

\* The mutant of heading_match: up to seven # open a heading.
heading_match_seven(line) ==
    LET h == ScanWhile(line, 0, {"#"})
        t == SpacesThenText(line, h)
    IN  IF h >= 1 /\ h <= 7 /\ t >= 0
        THEN [matched |-> TRUE, level |-> h, text |-> substr_from(line, t)]
        ELSE [matched |-> FALSE, level |-> 0, text |-> <<>>]

\* regex_match(line, heading_match, ^(#{1,6})\s+(.+)$)
heading_match(line) ==
    LET h == ScanWhile(line, 0, {"#"})
        t == SpacesThenText(line, h)
    IN  IF h >= 1 /\ h <= 6 /\ t >= 0
        THEN [matched |-> TRUE, level |-> h, text |-> substr_from(line, t)]
        ELSE [matched |-> FALSE, level |-> 0, text |-> <<>>]

\* regex_match(lines[pos], ^#{1,6}\s+), the test that ends a paragraph.
is_heading_prefix(line) ==
    LET h == ScanWhile(line, 0, {"#"})
        e == ScanWhile(line, h, WhiteSpace)
    IN  h >= 1 /\ h <= 6 /\ e > h /\ e = Len(line)

\* regex_match(line, code_match, ^```(\w*)\s*$)
code_match(line) ==
    LET l == ScanWhile(line, 3, WordChars)
    IN  IF StartsWith(line, <<"backtick", "backtick", "backtick">>) /\ ScanWhile(line, l, WhiteSpace) = Len(line)
        THEN [matched |-> TRUE, language |-> SubSeq(line, 4, l)]
        ELSE [matched |-> FALSE, language |-> <<>>]

\* regex_match(lines[pos], ^```\s*$)
is_closing_fence(line) ==
    StartsWith(line, <<"backtick", "backtick", "backtick">>) /\ ScanWhile(line, 3, WhiteSpace) = Len(line)

\* regex_match(line, quote_match, ^\s*>\s*(.*)$)
quote_match(line) ==
    LET i == ScanWhile(line, 0, WhiteSpace)
        t == IF i < Len(line) /\ At(line, i) = ">"
             THEN SpacesThenRest(line, i + 1) ELSE -1
    IN  IF t >= 0 THEN [matched |-> TRUE, text |-> substr_from(line, t)]
        ELSE [matched |-> FALSE, text |-> <<>>]

\* regex_match(line, ^(\s*)[-*+]\s+(.+)$): where group 2 starts, or -1.
unordered_item(line) ==
    LET i == ScanWhile(line, 0, WhiteSpace)
    IN  IF i < Len(line) /\ At(line, i) \in {"-", "*", "+"}
        THEN SpacesThenText(line, i + 1) ELSE -1

\* regex_match(line, ^(\s*)\d+\.\s+(.+)$): where group 2 starts, or -1.
ordered_item(line) ==
    LET i == ScanWhile(line, 0, WhiteSpace)
        d == ScanWhile(line, i, Digits)
    IN  IF d > i /\ d < Len(line) /\ At(line, d) = "."
        THEN SpacesThenText(line, d + 1) ELSE -1

\* Either list pattern: the item text (group 2 of the pattern that matched).
list_match(line) ==
    LET u == unordered_item(line)
        o == ordered_item(line)
    IN  IF u >= 0 THEN [matched |-> TRUE, text |-> substr_from(line, u)]
        ELSE IF o >= 0 THEN [matched |-> TRUE, text |-> substr_from(line, o)]
        ELSE [matched |-> FALSE, text |-> <<>>]

\* line.find('|') != std::string::npos
has_pipe(line) == \E i \in 1..Len(line) : line[i] = "|"

\* The mutant of is_separator: a separator line must hold a dash.
is_separator_with_dash(line) ==
    LET core == Strip(line, WhiteSpace)
    IN  /\ Len(core) >= 2
        /\ core[1] = "|"
        /\ core[Len(core)] = "|"
        /\ \A i \in 1..Len(core) : core[i] \in WhiteSpace \cup {"-", "|"}
        /\ \E i \in 1..Len(core) : core[i] = "-"

\* regex_match(table_line, ^\s*\|[\s\-\|]*\|\s*$)
is_separator(line) ==
    LET core == Strip(line, WhiteSpace)
    IN  /\ Len(core) >= 2
        /\ core[1] = "|"
        /\ core[Len(core)] = "|"
        /\ \A i \in 1..Len(core) : core[i] \in WhiteSpace \cup {"-", "|"}

(***************************************************************************)
(* markdown::Deserializer::parse_inline.  A search is regex_search from    *)
(* the cursor: the match at the least position where the pattern matches.  *)
(***************************************************************************)
NoMatch == [found |-> FALSE, start |-> 0, end |-> 0, g1 |-> <<>>, g2 |-> <<>>]
Match(start, end, g1, g2) ==
    [found |-> TRUE, start |-> start, end |-> end, g1 |-> g1, g2 |-> g2]

\*  \*\*(.*?)\*\*  at position i: the match, group 1 between the markers.
bold_at(s, i) ==
    LET js == {j \in (i + 2)..(Len(s) - 2) :
                  /\ At(s, j) = "*" /\ At(s, j + 1) = "*"
                  /\ \A k \in (i + 2)..(j - 1) : At(s, k) \notin LineTerminators}
        Closed(j) == Match(i, j + 2, SubSeq(s, i + 3, j), <<>>)
    IN  IF i + 1 < Len(s) /\ At(s, i) = "*" /\ At(s, i + 1) = "*" /\ js # {}
        THEN Closed(Least(js)) ELSE NoMatch

bold_search(s, p) ==
    LET starts == {i \in p..(Len(s) - 1) : bold_at(s, i).found}
    IN  IF starts = {} THEN NoMatch ELSE bold_at(s, Least(starts))

\*  \*(.*?)\*  at position i: the match, group 1 between the markers.
italic_at(s, i) ==
    LET js == {j \in (i + 1)..(Len(s) - 1) :
                  /\ At(s, j) = "*"
                  /\ \A k \in (i + 1)..(j - 1) : At(s, k) \notin LineTerminators}
        Closed(j) == Match(i, j + 1, SubSeq(s, i + 2, j), <<>>)
    IN  IF At(s, i) = "*" /\ js # {} THEN Closed(Least(js)) ELSE NoMatch

italic_search(s, p) ==
    LET starts == {i \in p..(Len(s) - 1) : italic_at(s, i).found}
    IN  IF starts = {} THEN NoMatch ELSE italic_at(s, Least(starts))

\*  `([^`]+)`  at position i: the match, group 1 between the backticks.
code_at(s, i) ==
    LET Closed(j) ==
            IF At(s, i) = "backtick" /\ j > i + 1 /\ j < Len(s)
            THEN Match(i, j + 1, SubSeq(s, i + 2, j), <<>>) ELSE NoMatch
    IN  Closed(ScanUntil(s, i + 1, {"backtick"}))

code_search(s, p) ==
    LET starts == {i \in p..(Len(s) - 1) : code_at(s, i).found}
    IN  IF starts = {} THEN NoMatch ELSE code_at(s, Least(starts))

\*  \[([^\]]{m,})\]\(([^)]+)\)  with the [ at position i: the match, the
\* whole match starting at position `from`.
bracket_match(s, from, i, m) ==
    LET j == ScanUntil(s, i + 1, {"]"})
        k == ScanUntil(s, j + 2, {")"})
    IN  IF /\ i < Len(s) /\ At(s, i) = "["
           /\ j >= i + 1 + m /\ j + 1 < Len(s) /\ At(s, j + 1) = "("
           /\ k > j + 2 /\ k < Len(s)
        THEN Match(from, k + 1, SubSeq(s, i + 2, j), SubSeq(s, j + 3, k))
        ELSE NoMatch

\*  \[([^\]]+)\]\(([^)]+)\)
link_search(s, p) ==
    LET starts == {i \in p..(Len(s) - 1) : bracket_match(s, i, i, 1).found}
    IN  IF starts = {} THEN NoMatch
        ELSE bracket_match(s, Least(starts), Least(starts), 1)

\*  !\[([^\]]*)\]\(([^)]+)\)
img_search(s, p) ==
    LET starts == {i \in p..(Len(s) - 1) :
                      At(s, i) = "!" /\ bracket_match(s, i, i + 1, 0).found}
    IN  IF starts = {} THEN NoMatch
        ELSE bracket_match(s, Least(starts), Least(starts) + 1, 0)

\* The mutant of Before: the text between the cursor and a match is dropped.
Before_dropped(s, p, m) == <<>>

\* The literal text between the cursor and a match, flushed as a Text node.
Before(s, p, m) ==
    IF m.start > p THEN <<MdNode("Text", SubSeq(s, p + 1, m.start), 0)>> ELSE <<>>

\* The mutant of link_node: the href attribute is not set.
link_node_without_href(m) == MdNode("Link", m.g1, 0)

\* The Link node of a match of the link pattern: group 1 is the text, group 2
\* the href attribute.
link_node(m) ==
    [MdNode("Link", m.g1, 0) EXCEPT !.attributes = Put(NoAttributes, <<"h", "r", "e", "f">>, m.g2)]

\* The Image node of a match of the image pattern: group 1 is the alt
\* attribute, group 2 the src attribute.
img_node(m) ==
    [MdNode("Image", <<>>, 0) EXCEPT !.attributes =
        Put(Put(NoAttributes, <<"a", "l", "t">>, m.g1), <<"s", "r", "c">>, m.g2)]

\* The mutant of inline_step: the image pattern is tried before the link's.
inline_step_image_first(s, p) ==
    LET First(b, i, c, l, g) ==
            IF b.found THEN
                [nodes |-> Before(s, p, b) \o <<MdNode("Bold", b.g1, 0)>>, pos |-> b.end]
            ELSE IF i.found THEN
                [nodes |-> Before(s, p, i) \o <<MdNode("Italic", i.g1, 0)>>, pos |-> i.end]
            ELSE IF c.found THEN
                [nodes |-> Before(s, p, c) \o <<MdNode("InlineCode", c.g1, 0)>>,
                 pos |-> c.end]
            ELSE IF g.found THEN
                [nodes |-> Before(s, p, g)
                           \o <<img_node(g)>>,
                 pos |-> g.end]
            ELSE IF l.found THEN
                [nodes |-> Before(s, p, l)
                           \o <<link_node(l)>>,
                 pos |-> l.end]
            ELSE [nodes |-> <<MdNode("Text", substr_from(s, p), 0)>>, pos |-> Len(s)]
    IN  First(bold_search(s, p), italic_search(s, p), code_search(s, p),
              link_search(s, p), img_search(s, p))

\* One iteration of parse_inline's loop with the cursor at p < length: the
\* nodes it appends and the cursor after it (the length when it breaks).
\* The five searches run from the cursor; the first that found a match, in
\* the order bold, italic, code, link, image, is the one taken.
inline_step(s, p) ==
    LET First(b, i, c, l, g) ==
            IF b.found THEN
                [nodes |-> Before(s, p, b) \o <<MdNode("Bold", b.g1, 0)>>, pos |-> b.end]
            ELSE IF i.found THEN
                [nodes |-> Before(s, p, i) \o <<MdNode("Italic", i.g1, 0)>>, pos |-> i.end]
            ELSE IF c.found THEN
                [nodes |-> Before(s, p, c) \o <<MdNode("InlineCode", c.g1, 0)>>,
                 pos |-> c.end]
            ELSE IF l.found THEN
                [nodes |-> Before(s, p, l)
                           \o <<link_node(l)>>,
                 pos |-> l.end]
            ELSE IF g.found THEN
                [nodes |-> Before(s, p, g)
                           \o <<img_node(g)>>,
                 pos |-> g.end]
            ELSE [nodes |-> <<MdNode("Text", substr_from(s, p), 0)>>, pos |-> Len(s)]
    IN  First(bold_search(s, p), italic_search(s, p), code_search(s, p),
              link_search(s, p), img_search(s, p))

RECURSIVE inline_loop(_, _)
\* The mutant of inline_loop: the cursor skips the character after a token.
inline_loop_skipping(s, p) ==
    IF p < Len(s)
    THEN LET Rest(step) == step.nodes \o inline_loop(s, step.pos + 1)
         IN  Rest(inline_step(s, p))
    ELSE <<>>

inline_loop(s, p) ==
    IF p < Len(s)
    THEN LET Rest(step) == step.nodes \o inline_loop(s, step.pos)
         IN  Rest(inline_step(s, p))
    ELSE <<>>

\* parse_inline(text, parent): parent with the inline nodes of text appended;
\* a parent left without children gets the whole text as one Text node.
parse_inline(text, parent) ==
    IF text = <<>> THEN parent
    ELSE LET WithNodes(nodes) ==
                 [parent EXCEPT !.children =
                     IF @ \o nodes = <<>> THEN <<MdNode("Text", text, 0)>>
                     ELSE @ \o nodes]
         IN  WithNodes(inline_loop(text, 0))

(***************************************************************************)
(* markdown::Deserializer::parse_block and deserialize.  The cursor pos is *)
(* the 0-based index of a line; every rule returns the cursor after the    *)
(* lines it consumed and the parent with the node it appended.             *)
(***************************************************************************)
Block(p, parent) == [pos |-> p, parent |-> parent]

AppendChild(parent, child) == [parent EXCEPT !.children = Append(@, child)]

\* The mutant of rule_block: the cursor stays on the line.
rule_block_stuck(ls, p, parent) ==
    Block(p, AppendChild(parent, MdNode("HorizontalRule", <<>>, 0)))

\* The horizontal rule: one line, one HorizontalRule node.
rule_block(ls, p, parent) ==
    Block(p + 1, AppendChild(parent, MdNode("HorizontalRule", <<>>, 0)))

\* The heading: one line, one Heading node with the matched text and level.
heading_block(ls, p, parent) ==
    LET Heading(m) ==
            Block(p + 1, AppendChild(parent, MdNode("Heading", m.text, m.level)))
    IN  Heading(heading_match(At(ls, p)))

\* The lines of a fenced code block from line p to the closing fence or the
\* end; a newline is written before a line only once code_content holds
\* something (code_content.tellp() > 0).
RECURSIVE fence_body(_, _, _)
fence_body(ls, p, content) ==
    IF p < Len(ls) /\ ~is_closing_fence(At(ls, p))
    THEN fence_body(ls, p + 1,
                    (IF content # <<>> THEN content \o <<"\n">> ELSE content)
                    \o At(ls, p))
    ELSE [content |-> content, pos |-> IF p < Len(ls) THEN p + 1 ELSE p]

code_block(ls, p, parent) ==
    LET language == code_match(At(ls, p)).language
        body == fence_body(ls, p + 1, <<>>)
        code_node == MdNode("CodeBlock", body.content, 0)
    IN  Block(body.pos,
              AppendChild(parent,
                  IF language # <<>>
                  THEN [code_node EXCEPT !.attributes =
                           Put(NoAttributes, <<"l", "a", "n", "g", "u", "a", "g", "e">>, language)]
                  ELSE code_node))

\* The quote: that single line, its remainder inline-parsed.
quote_block(ls, p, parent) ==
    Block(p + 1,
          AppendChild(parent,
              parse_inline(quote_match(At(ls, p)).text, MdNode("Quote", <<>>, 0))))

\* The item loop of a list: every following line matching either bullet.
RECURSIVE list_items(_, _, _, _)
list_items(ls, p, is_ordered, items) ==
    IF p < Len(ls) /\ list_match(At(ls, p)).matched
    THEN LET item_node == MdNode("ListItem", <<>>, 0)
             marked == IF is_ordered
                       THEN [item_node EXCEPT !.attributes =
                                Put(NoAttributes, <<"o", "r", "d", "e", "r", "e", "d">>, <<"t", "r", "u", "e">>)]
                       ELSE item_node
         IN  list_items(ls, p + 1, is_ordered,
                        Append(items, parse_inline(list_match(At(ls, p)).text, marked)))
    ELSE [items |-> items, pos |-> p]

\* The mutant of list_block: no list is taken for ordered.
list_block_never_ordered(ls, p, parent) ==
    LET List(l) ==
            Block(l.pos,
                  AppendChild(parent,
                      [MdNode("List", <<>>, 0) EXCEPT !.children = l.items]))
    IN  List(list_items(ls, p, FALSE, <<>>))

list_block(ls, p, parent) ==
    LET List(l) ==
            Block(l.pos,
                  AppendChild(parent,
                      [MdNode("List", <<>>, 0) EXCEPT !.children = l.items]))
    IN  List(list_items(ls, p, ordered_item(At(ls, p)) >= 0, <<>>))

\* The cells of a table line from the pipe at position q on: one match of
\* \|([^|]*) per pipe; a cell is kept unless it is empty and the first match.
RECURSIVE table_cells(_, _, _)
table_cells(line, q, is_first) ==
    LET e == ScanUntil(line, q + 1, {"|"})
        Cell(cell_content) ==
            IF cell_content # <<>> \/ ~is_first
            THEN <<parse_inline(cell_content, MdNode("TableCell", <<>>, 0))>>
            ELSE <<>>
    IN  Cell(Strip(SubSeq(line, q + 2, e), {" ", "\t"}))
        \o (IF e < Len(line) THEN table_cells(line, e, FALSE) ELSE <<>>)

\* The row loop of a table: every following line that holds a pipe.
RECURSIVE table_rows(_, _, _)
table_rows(ls, p, rows) ==
    IF p < Len(ls) /\ has_pipe(At(ls, p)) THEN
        IF is_separator(At(ls, p)) THEN table_rows(ls, p + 1, rows)
        ELSE LET WithRow(cells) ==
                     IF cells # <<>>
                     THEN Append(rows, [MdNode("TableRow", <<>>, 0)
                                           EXCEPT !.children = cells])
                     ELSE rows
             IN  table_rows(ls, p + 1,
                            WithRow(table_cells(At(ls, p),
                                                ScanUntil(At(ls, p), 0, {"|"}), TRUE)))
    ELSE [rows |-> rows, pos |-> p]

table_block(ls, p, parent) ==
    LET Table(t) ==
            Block(t.pos,
                  AppendChild(parent,
                      [MdNode("Table", <<>>, 0) EXCEPT !.children = t.rows]))
    IN  Table(table_rows(ls, p, <<>>))

\* The continuation loop of a paragraph: every following line that is not
\* empty and does not match ^#{1,6}\s+ is joined with one space.
RECURSIVE paragraph_text(_, _, _)
paragraph_text(ls, p, text) ==
    IF p < Len(ls) /\ At(ls, p) # <<>> /\ ~is_heading_prefix(At(ls, p))
    THEN paragraph_text(ls, p + 1, text \o <<" ">> \o At(ls, p))
    ELSE [text |-> text, pos |-> p]

\* The mutant of paragraph_block: the paragraph text is not inline-parsed.
paragraph_block_no_inline(ls, p, parent) ==
    LET t == paragraph_text(ls, p + 1, At(ls, p))
    IN  Block(t.pos, AppendChild(parent, MdNode("Paragraph", <<>>, 0)))

paragraph_block(ls, p, parent) ==
    LET t == paragraph_text(ls, p + 1, At(ls, p))
    IN  Block(t.pos,
              AppendChild(parent, parse_inline(t.text, MdNode("Paragraph", <<>>, 0))))

\* parse_block(lines, pos, parent): the first rule that matches lines[pos].
parse_block(ls, p, parent) ==
    IF p >= Len(ls) THEN Block(p, parent)
    ELSE LET line == At(ls, p)
         IN  IF line = <<>> THEN Block(p + 1, parent)
             ELSE IF is_horizontal_rule(line) THEN rule_block(ls, p, parent)
             ELSE IF heading_match(line).matched THEN heading_block(ls, p, parent)
             ELSE IF code_match(line).matched THEN code_block(ls, p, parent)
             ELSE IF quote_match(line).matched THEN quote_block(ls, p, parent)
             ELSE IF list_match(line).matched THEN list_block(ls, p, parent)
             ELSE IF has_pipe(line) THEN table_block(ls, p, parent)
             ELSE paragraph_block(ls, p, parent)

\* The std::getline loop of deserialize: the text split at each "\n", the
\* terminator dropped; a text ending in "\n" has no extra empty line.
RECURSIVE getlines(_)
getlines(text) ==
    IF text = <<>> THEN <<>>
    ELSE LET e == ScanUntil(text, 0, {"\n"})
         IN  <<SubSeq(text, 1, e)>> \o getlines(substr_from(text, e + 1))

\* The loop of deserialize as a whole: parse_block until every line is
\* consumed, from the cursor p and the document so far.
RECURSIVE parse_blocks(_, _, _)
parse_blocks(ls, p, doc) ==
    IF p < Len(ls)
    THEN LET Rest(b) == parse_blocks(ls, b.pos, b.parent)
         IN  Rest(parse_block(ls, p, doc))
    ELSE doc

\* markdown::Deserializer::deserialize(markdown): the Document it returns.
md_deserialize(text) == parse_blocks(getlines(text), 0, MdNode("Document", <<>>, 0))

(***************************************************************************)
(* markdown::Serializer: markdown() through serialize_markdown_node, and   *)
(* html() through convert_to_html_node and html::Serializer::serialize.    *)
(* std::map::at throws std::out_of_range for a key the map does not hold;  *)
(* an outcome is the value returned or that exception.                     *)
(***************************************************************************)
Returned(value) == [ok |-> TRUE, value |-> value, what |-> ""]
Raised(what) == [ok |-> FALSE, value |-> <<>>, what |-> what]
OutOfRange == Raised("std::out_of_range")
\* The value of md_out and html_out before the call.
NotCalled == Raised("not called")

\* attributes.at(key)
at(attributes, key) ==
    IF key \in DOMAIN attributes THEN Returned(attributes[key]) ELSE OutOfRange

\* Two writes to the stream one after the other: the first exception wins.
Then(a, b) ==
    IF ~a.ok THEN a ELSE IF ~b.ok THEN b ELSE Returned(a.value \o b.value)

\* std::to_string(int)
DigitChars == <<"0", "1", "2", "3", "4", "5", "6", "7", "8", "9">>
RECURSIVE to_string(_)
to_string(n) ==
    IF n < 0 THEN <<"-">> \o to_string(0 - n)
    ELSE IF n < 10 THEN <<DigitChars[n + 1]>>
    ELSE to_string(n \div 10) \o <<DigitChars[(n % 10) + 1]>>

\* The child types after which the Document case writes an empty line.
BlockTypes == {"Paragraph", "Heading", "CodeBlock", "List", "Quote", "Table",
               "HorizontalRule"}

\* case NodeType::Link of serialize_markdown_node.
link_markdown(n) ==
    Then(Returned(<<"[">> \o n.text \o <<"]", "(">>),
         Then(at(n.attributes, <<"h", "r", "e", "f">>), Returned(<<")">>)))

\* case NodeType::Image of serialize_markdown_node.
image_markdown(n) ==
    Then(Returned(<<"!", "[">>),
         Then(at(n.attributes, <<"a", "l", "t">>),
              Then(Returned(<<"]", "(">>),
                   Then(at(n.attributes, <<"s", "r", "c">>), Returned(<<")">>)))))

RECURSIVE serialize_markdown_node(_, _)
RECURSIVE serialize_markdown_children(_, _)
RECURSIVE serialize_document_children(_, _)
RECURSIVE serialize_table_rows(_, _, _)
RECURSIVE serialize_row_cells(_, _)

\* for(child : node.children) serialize_markdown_node(oss, child, depth)
serialize_markdown_children(children, depth) ==
    IF children = <<>> THEN Returned(<<>>)
    ELSE Then(serialize_markdown_node(Head(children), depth),
              serialize_markdown_children(Tail(children), depth))

\* The Document case: an empty line after each block child.
serialize_document_children(children, depth) ==
    IF children = <<>> THEN Returned(<<>>)
    ELSE Then(serialize_markdown_node(Head(children), depth),
              Then(Returned(IF Head(children).type \in BlockTypes
                            THEN <<"\n">> ELSE <<>>),
                   serialize_document_children(Tail(children), depth)))

\* The Table case: row i of the table, the separator row after row 0.
serialize_table_rows(n, i, depth) ==
    IF i >= Len(n.children) THEN Returned(<<>>)
    ELSE Then(serialize_markdown_node(At(n.children, i), depth),
              Then(Returned(IF i = 0
                            THEN <<"|">>
                                 \o RepeatText(Len(At(n.children, 0).children), <<" ", "-", "-", "-", " ", "|">>)
                                 \o <<"\n">>
                            ELSE <<>>),
                   serialize_table_rows(n, i + 1, depth)))

\* The TableRow case: " cell |" for each child.
serialize_row_cells(children, depth) ==
    IF children = <<>> THEN Returned(<<>>)
    ELSE Then(Returned(<<" ">>),
              Then(serialize_markdown_node(Head(children), depth),
                   Then(Returned(<<" ", "|">>),
                        serialize_row_cells(Tail(children), depth))))

serialize_markdown_node(n, depth) ==
    LET children == serialize_markdown_children(n.children, depth)
        text == Returned(n.text)
        newline == Returned(<<"\n">>)
    IN  CASE n.type = "Document" -> serialize_document_children(n.children, depth)
          [] n.type = "Heading" ->
                \* std::string(node.level, '#'): a negative level converts to a
                \* size above max_size() and the constructor throws
                IF n.level < 0 THEN Raised("std::length_error")
                ELSE Returned(Repeat(n.level, "#") \o <<" ">> \o n.text \o <<"\n">>)
          [] n.type = "Paragraph" -> Then(children, Then(text, newline))
          [] n.type = "CodeBlock" ->
                Returned(<<"backtick", "backtick", "backtick">>
                         \o (IF <<"l", "a", "n", "g", "u", "a", "g", "e">> \in DOMAIN n.attributes
                             THEN n.attributes[<<"l", "a", "n", "g", "u", "a", "g", "e">>] ELSE <<>>)
                         \o <<"\n">> \o n.text \o <<"\n", "backtick", "backtick", "backtick", "\n">>)
          [] n.type = "InlineCode" -> Returned(<<"backtick">> \o n.text \o <<"backtick">>)
          [] n.type = "Bold" ->
                Then(Returned(<<"*", "*">>), Then(children, Then(text, Returned(<<"*", "*">>))))
          [] n.type = "Italic" ->
                Then(Returned(<<"*">>), Then(children, Then(text, Returned(<<"*">>))))
          [] n.type = "Link" -> link_markdown(n)
          [] n.type = "Image" -> image_markdown(n)
          [] n.type = "List" -> children
          [] n.type = "ListItem" ->
                Then(Returned(Repeat(depth * 2, " ")
                              \o (IF <<"o", "r", "d", "e", "r", "e", "d">> \in DOMAIN n.attributes
                                     /\ n.attributes[<<"o", "r", "d", "e", "r", "e", "d">>] = <<"t", "r", "u", "e">>
                                  THEN <<"1", ".", " ">> ELSE <<"-", " ">>)),
                     Then(serialize_markdown_children(n.children, depth + 1),
                          Then(text, newline)))
          [] n.type = "Quote" ->
                Then(Returned(<<">", " ">>), Then(children, Then(text, newline)))
          [] n.type = "Table" -> serialize_table_rows(n, 0, depth)
          [] n.type = "TableRow" ->
                Then(Returned(<<"|">>),
                     Then(serialize_row_cells(n.children, depth), newline))
          [] n.type = "TableCell" -> Then(text, children)
          [] n.type = "Text" -> text
          [] n.type = "LineBreak" -> Returned(<<" ", " ", "\n">>)
          [] n.type = "HorizontalRule" -> Returned(<<"-", "-", "-", "\n">>)

\* markdown::Serializer::markdown
markdown_of(n) == serialize_markdown_node(n, 0)

\* A bare html text node holding text.
TextNode(text) == HtmlNode(<<>>, text, NoAttributes, <<>>)

Class(name) == Put(NoAttributes, <<"c", "l", "a", "s", "s">>, name)

\* The mutant of code_block_html: the code element of a block without a
\* language gets the class "language-" too.
code_block_html_always_language(n) ==
    LET language == IF <<"l", "a", "n", "g", "u", "a", "g", "e">> \in DOMAIN n.attributes
                    THEN n.attributes[<<"l", "a", "n", "g", "u", "a", "g", "e">>] ELSE <<>>
        code_node == HtmlNode(<<"c", "o", "d", "e">>, n.text, Class(<<"l", "a", "n", "g", "u", "a", "g", "e", "-">> \o language), <<>>)
    IN  Returned(HtmlNode(<<"p", "r", "e">>, <<>>, Class(<<"c", "o", "d", "e", "-", "b", "l", "o", "c", "k">>), <<code_node>>))

\* case NodeType::CodeBlock of convert_to_html_node.
code_block_html(n) ==
    LET code_node ==
            HtmlNode(<<"c", "o", "d", "e">>, n.text,
                     IF <<"l", "a", "n", "g", "u", "a", "g", "e">> \in DOMAIN n.attributes
                     THEN Class(<<"l", "a", "n", "g", "u", "a", "g", "e", "-">> \o n.attributes[<<"l", "a", "n", "g", "u", "a", "g", "e">>])
                     ELSE NoAttributes,
                     <<>>)
    IN  Returned(HtmlNode(<<"p", "r", "e">>, <<>>, Class(<<"c", "o", "d", "e", "-", "b", "l", "o", "c", "k">>), <<code_node>>))

\* The mutant of link_html: the a element gets no class.
link_html_without_class(n) ==
    LET href == at(n.attributes, <<"h", "r", "e", "f">>)
    IN  IF ~href.ok THEN OutOfRange
        ELSE Returned(HtmlNode(<<"a">>, n.text,
                               Put(NoAttributes, <<"h", "r", "e", "f">>, href.value), <<>>))

\* case NodeType::Link of convert_to_html_node.
link_html(n) ==
    LET href == at(n.attributes, <<"h", "r", "e", "f">>)
    IN  IF ~href.ok THEN OutOfRange
        ELSE Returned(HtmlNode(<<"a">>, n.text,
                               Put(Put(NoAttributes, <<"h", "r", "e", "f">>, href.value),
                                   <<"c", "l", "a", "s", "s">>, <<"l", "i", "n", "k">>),
                               <<>>))

\* case NodeType::Image of convert_to_html_node.
image_html(n) ==
    LET src == at(n.attributes, <<"s", "r", "c">>)
        alt == at(n.attributes, <<"a", "l", "t">>)
    IN  IF ~src.ok \/ ~alt.ok THEN OutOfRange
        ELSE Returned(HtmlNode(<<"i", "m", "g">>, <<>>,
                               Put(Put(Put(NoAttributes, <<"s", "r", "c">>, src.value),
                                       <<"a", "l", "t">>, alt.value),
                                   <<"c", "l", "a", "s", "s">>, <<"i", "m", "a", "g", "e">>),
                               <<>>))

RECURSIVE convert_to_html_node(_)
RECURSIVE convert_children(_)

\* for(child : md_node.children) push_back(convert_to_html_node(child))
convert_children(children) ==
    IF children = <<>> THEN Returned(<<>>)
    ELSE LET first == convert_to_html_node(Head(children))
             rest == convert_children(Tail(children))
         IN  IF ~first.ok \/ ~rest.ok THEN OutOfRange
             ELSE Returned(<<first.value>> \o rest.value)

convert_to_html_node(n) ==
    LET kids == convert_children(n.children)
        \* an element holding the converted children
        Container(tag, attributes) ==
            IF ~kids.ok THEN OutOfRange
            ELSE Returned(HtmlNode(tag, <<>>, attributes, kids.value))
        \* the same, with the node's own text as a trailing bare text child
        WithText(tag, attributes) ==
            IF ~kids.ok THEN OutOfRange
            ELSE Returned(HtmlNode(tag, <<>>, attributes,
                                   kids.value \o (IF n.text # <<>>
                                                  THEN <<TextNode(n.text)>> ELSE <<>>)))
    IN  CASE n.type = "Document" -> Container(<<"d", "i", "v">>, NoAttributes)
          [] n.type = "Heading" ->
                Returned(HtmlNode(<<"h">> \o to_string(n.level), n.text,
                                  Class(<<"h", "e", "a", "d", "i", "n", "g", "-", "p", "r", "i", "m", "a", "r", "y">>), <<>>))
          [] n.type = "Paragraph" -> WithText(<<"p">>, Class(<<"p", "a", "r", "a", "g", "r", "a", "p", "h">>))
          [] n.type = "CodeBlock" -> code_block_html(n)
          [] n.type = "InlineCode" ->
                Returned(HtmlNode(<<"c", "o", "d", "e">>, n.text, Class(<<"i", "n", "l", "i", "n", "e", "-", "c", "o", "d", "e">>), <<>>))
          [] n.type = "Bold" -> WithText(<<"s", "t", "r", "o", "n", "g">>, Class(<<"b", "o", "l", "d">>))
          [] n.type = "Italic" -> WithText(<<"e", "m">>, Class(<<"i", "t", "a", "l", "i", "c">>))
          [] n.type = "Link" -> link_html(n)
          [] n.type = "Image" -> image_html(n)
          [] n.type = "List" -> Container(<<"u", "l">>, Class(<<"l", "i", "s", "t">>))
          [] n.type = "ListItem" -> WithText(<<"l", "i">>, Class(<<"l", "i", "s", "t", "-", "i", "t", "e", "m">>))
          [] n.type = "Quote" -> WithText(<<"b", "l", "o", "c", "k", "q", "u", "o", "t", "e">>, Class(<<"q", "u", "o", "t", "e">>))
          [] n.type = "Table" -> Container(<<"t", "a", "b", "l", "e">>, Class(<<"t", "a", "b", "l", "e">>))
          [] n.type = "TableRow" -> Container(<<"t", "r">>, Class(<<"t", "a", "b", "l", "e", "-", "r", "o", "w">>))
          [] n.type = "TableCell" -> WithText(<<"t", "d">>, Class(<<"t", "a", "b", "l", "e", "-", "c", "e", "l", "l">>))
          [] n.type = "Text" -> Returned(TextNode(n.text))
          [] n.type = "LineBreak" ->
                Returned(HtmlNode(<<"b", "r">>, <<>>, Class(<<"l", "i", "n", "e", "-", "b", "r", "e", "a", "k">>), <<>>))
          [] n.type = "HorizontalRule" ->
                Returned(HtmlNode(<<"h", "r">>, <<>>, Class(<<"h", "o", "r", "i", "z", "o", "n", "t", "a", "l", "-", "r", "u", "l", "e">>), <<>>))

\* markdown::Serializer::html
html_of(n) ==
    LET html_root == convert_to_html_node(n)
    IN  IF ~html_root.ok THEN OutOfRange
        ELSE Returned(serialize(html_root.value, 0))


(***************************************************************************)
(* http::HttpServerAsync: the file cache of handle_request.  A file is its *)
(* size and last write time, a CacheEntry is the size of its content, its  *)
(* last_modified and its cached_at; times are ticks of one clock.  The     *)
(* content read from a file has the size of the file.                      *)
(***************************************************************************)
cache_max_size_ == 3    \* 50 * 1024 * 1024 bytes, scaled to the file sizes
cache_ttl_ == 1         \* std::chrono::minutes(30), scaled to clock ticks
MaxClock == 2           \* last tick of the clock

\* The paths requested and the sizes a file can have.
RequestPaths == {"/", "/index.html", "/a.js"}
FileSizes == {1, 2, 4}
NoFile == [size |-> 0, last_write |-> 0, exists |-> FALSE]
File(size, last_write) == [size |-> size, last_write |-> last_write, exists |-> TRUE]

\* resolve_path for the paths of RequestPaths: "/" is "/index.html"; the
\* others hold a '.', no '%' and no "..", and are returned as they are.
resolve_path(path) == IF path = "/" THEN "/index.html" ELSE path
ResolvedPaths == {resolve_path(path) : path \in RequestPaths}

\* The state of the cache: the map and the counter.
Cache(map, size) == [map |-> map, size |-> size]

\* file_cache_.erase(it)
Erase(map, paths) == [k \in (DOMAIN map) \ paths |-> map[k]]

\* The sum of content.size() over the entries at paths.
RECURSIVE ContentSize(_, _)
ContentSize(map, paths) ==
    IF paths = {} THEN 0
    ELSE LET k == CHOOSE k \in paths : TRUE
         IN  map[k].size + ContentSize(map, paths \ {k})

\* is_cache_valid(entry), system_clock::now() returning t.
is_cache_valid(entry, t) == (t - entry.cached_at) < cache_ttl_

\* cleanup_cache(), every call of system_clock::now() in it returning t.
cleanup_cache(c, t) ==
    LET Without(expired) ==
            Cache(Erase(c.map, expired), c.size - ContentSize(c.map, expired))
    IN  Without({k \in DOMAIN c.map : ~is_cache_valid(c.map[k], t)})

\* The entries the scan of evict_cache_if_needed can end on: the iteration
\* order of the unordered_map decides among entries of equal cached_at.
Oldest(map) ==
    {k \in DOMAIN map : \A o \in DOMAIN map : map[k].cached_at <= map[o].cached_at}

\* evict_cache_if_needed(new_content_size): the caches it can leave.
RECURSIVE evict_cache_if_needed(_, _)
evict_cache_if_needed(c, new_content_size) ==
    IF c.size + new_content_size > cache_max_size_ /\ DOMAIN c.map # {}
    THEN UNION {evict_cache_if_needed(
                    Cache(Erase(c.map, {k}), c.size - c.map[k].size),
                    new_content_size) : k \in Oldest(c.map)}
    ELSE {c}

\* The outcome of handle_request: the status of the response and the cache.
Handled(status, c) == [status |-> status, cache |-> c]

\* handle_request from the read of the file on: the entry is stored when
\* its content fits the cache, over whatever entry the path has.
read_and_store(c, resolved_path, file, good, t) ==
    IF ~good THEN {Handled(500, c)}
    ELSE IF file.size <= cache_max_size_
    THEN {Handled(200, Cache(Put(e.map, resolved_path,
                                 [size |-> file.size,
                                  last_modified |-> file.last_write,
                                  cached_at |-> t]),
                             e.size + file.size)) :
             e \in evict_cache_if_needed(c, file.size)}
    ELSE {Handled(200, c)}

\* handle_request from file_cache_.find on, system_clock::now() returning t2
\* in is_cache_valid and t3 for cached_at.
find_and_serve(c, resolved_path, file, good, t2, t3) ==
    IF resolved_path \in DOMAIN c.map /\ is_cache_valid(c.map[resolved_path], t2)
    THEN IF file.last_write <= c.map[resolved_path].last_modified
         THEN {Handled(200, c)}
         ELSE read_and_store(Cache(Erase(c.map, {resolved_path}),
                                   c.size - c.map[resolved_path].size),
                             resolved_path, file, good, t3)
    ELSE read_and_store(c, resolved_path, file, good, t3)

\* handle_request(request) on cache c: the outcomes it can have.  etag_match
\* is whether the request's If-None-Match equals the file's etag, good is
\* whether the file could be opened, and t1 <= t2 <= t3 are the values of
\* system_clock::now() in cleanup_cache, in the validity check of the entry
\* found and at the construction of the new entry.
handle_request(c, method, path, file, etag_match, good, t1, t2, t3) ==
    IF method # "GET" THEN {Handled(405, c)}
    ELSE IF ~file.exists THEN {Handled(404, c)}
    ELSE IF etag_match THEN {Handled(304, c)}
    ELSE find_and_serve(cleanup_cache(c, t1), resolve_path(path), file, good, t2, t3)
(***************************************************************************)
(* The inputs of the calls.                                                *)
(***************************************************************************)
\* Texts handed to the entity codec: the five reserved characters, a
\* letter, a digit and the space.
CodecChars == {"&", "<", ">", "\"", "'", "a", "1", " "}
CodecTexts == Strings(CodecChars, MaxTextLen)

\* Tag trees handed to html::Serializer::serialize.
SerTags == { <<>>, <<"p">>, <<"d", "i", "v">>, <<"a">>, <<"c", "o", "d", "e">>, <<"i", "m", "g">>, <<"h", "r">>, <<"b", "r">> }
SerTexts == { <<>>, <<"x">>, <<"<", "y", ">">>, <<"&", "'", "\"">> }
SerAttributes ==
    { NoAttributes,
      Class(<<"l", "a", "n", "g", "u", "a", "g", "e", "-", "j", "s">>),
      Class(<<"l", "a", "n", "g", "u", "a", "g", "e", "-">>),
      Class(<<"l", "a", "n", "g">>),
      Class(<<"x", " ", "l", "a", "n", "g", "u", "a", "g", "e", "-">>),
      Put(Put(NoAttributes, <<"s", "r", "c">>, <<"a", "&", "b">>), <<"a", "l", "t">>, <<"<", "i", ">">>),
      Put(Put(Class(<<"l", "a", "n", "g", "u", "a", "g", "e", "-", "c">>), <<"h", "r", "e", "f">>, <<"\"", "q", "'">>), <<"i", "d">>, <<>>) }
SerChildren ==
    { TextNode(<<"<">>),
      HtmlNode(<<"p">>, <<"y">>, NoAttributes, <<>>),
      HtmlNode(<<"b", "r">>, <<"z">>, Class(<<"k">>), <<TextNode(<<"w">>)>>),
      HtmlNode(<<"c", "o", "d", "e">>, <<"<", "i", ">">>, Class(<<"l", "a", "n", "g", "u", "a", "g", "e", "-", "c">>), <<>>) }
SerNodes ==
    {HtmlNode(tag, text, attributes, children) :
        tag \in SerTags, text \in SerTexts, attributes \in SerAttributes,
        children \in Strings(SerChildren, MaxChildren)}

\* Tag trees without text and children, with tags and attribute keys in
\* lower and in upper case.
BareTags == { <<"p">>, <<"d", "i", "v">>, <<"a">>, <<"s", "p", "a", "n">>, <<"P">> }
BareAttributes == SerAttributes \cup { Put(NoAttributes, <<"I", "D">>, <<"a", "&", "b">>) }
BareNodes ==
    {HtmlNode(tag, <<>>, attributes, <<>>) :
        tag \in BareTags, attributes \in BareAttributes}

\* Texts handed to html::Deserializer::deserialize: a single piece of markup,
\* an opening tag cut short, and a div holding up to MaxTokens pieces, closed
\* or not.
HtmlTokens ==
    { <<"<", "p", ">">>, <<"<", "/", "p", ">">>, <<"<", "B", ">">>, <<"<", "/", "b", ">">>, <<"<", "b", "r", "/", ">">>, <<"<", "a", " ", "h", "=", "/", "x", ">">>, <<"<", ">">>, <<"x">>, <<" ">> }
RECURSIVE Concat(_)
Concat(pieces) == IF pieces = <<>> THEN <<>> ELSE Head(pieces) \o Concat(Tail(pieces))
\* Texts that end inside the opening tag.
CutTags == { <<"<", "p">>, <<"<", "p", " ", "a", "=", "b">>, <<"<", "b", "r", "/">>, <<"<", "b", "r", " ", "/">> }
\* Texts that give an img, hr or br element a body.
VoidBodies == { <<"<", "b", "r", ">", "x", "<", "/", "b", "r", ">">>, <<"<", "h", "r", ">", "<", "p", ">", "<", "/", "p", ">", "<", "/", "h", "r", ">">>, <<"<", "d", "i", "v", ">", "<", "i", "m", "g", ">", "t", "<", "/", "i", "m", "g", ">", "<", "/", "d", "i", "v", ">">> }
HtmlTexts ==
    {Concat(pieces) : pieces \in Strings(HtmlTokens, 1)}
    \cup CutTags \cup VoidBodies
    \cup { <<"<", "d", "i", "v", ">">> \o Concat(pieces) \o close :
              pieces \in Strings(HtmlTokens, MaxTokens),
              close \in { <<>>, <<"<", "/", "d", "i", "v", ">">> } }

\* Lines joined into a text, "\n" between two lines.
RECURSIVE JoinLines(_)
JoinLines(ls) ==
    IF ls = <<>> THEN <<>>
    ELSE IF Len(ls) = 1 THEN Head(ls)
    ELSE Head(ls) \o <<"\n">> \o JoinLines(Tail(ls))

\* Markdown texts: documents of up to MaxLines lines, one line per block
\* rule and lines that match none.
GeneralLines ==
    { <<>>, <<" ">>, <<"-", "-", "-">>, <<"#", " ", "a">>, <<"backtick", "backtick", "backtick">>, <<"backtick", "backtick", "backtick", "p", "y">>, <<">", " ", "q">>, <<"-", " ", "i">>, <<"1", ".", " ", "j">>,
      <<"|", "a", "|", "b", "|">>, <<"|", "-", "|", "-", "|">>, <<"t">>, <<"*", "*", "b", "*", "*", " ", "[", "l", "]", "(", "u", ")">>, <<"#", "#", "#", "#", "#", "#", "#", " ", "a">> }
GeneralTexts == {JoinLines(ls) : ls \in Strings(GeneralLines, MaxLines)}

\* Markdown texts made of blank lines, and of blank lines around a word.
BlankLines == { <<>>, <<" ">>, <<"\t">>, <<" ", " ">>, <<"a">> }
BlankTexts ==
    {JoinLines(ls) : ls \in Strings(BlankLines, MaxBlankLines)}
    \cup {JoinLines(ls) \o <<"\n">> : ls \in Strings(BlankLines, MaxBlankLines)}

\* Markdown texts of one line: up to MaxHashes # and a tail.
HeadingTailChars == {" ", "\t", "a", "|", "\r"}
HeadingTexts ==
    {Repeat(k, "#") \o tail :
        k \in 0..MaxHashes, tail \in Strings(HeadingTailChars, MaxTail)}
    \cup { <<"#", " ", "h", "\n">> \o Repeat(k, "#") \o <<" ", "a">> : k \in 0..MaxHashes}

\* Markdown texts of one line holding one image literal ![alt](src).
ImageChars == {"a", " ", "*", "backtick"}
ImageParts == Strings(ImageChars, MaxImagePart) \ {<<>>}
ImageTexts ==
    { <<"!", "[">> \o alt \o <<"]", "(">> \o src \o <<")">> : alt \in ImageParts, src \in ImageParts}

\* Markdown texts holding one fenced code block, after a paragraph or not,
\* closed or not.
CodeLines == { <<>>, <<"x">>, <<"<", "b", ">">>, <<"a", "&", "b">> }
CodeLanguages == { <<>>, <<"p", "y">> }
CodeTexts ==
    {before \o <<"backtick", "backtick", "backtick">> \o language \o <<"\n">> \o JoinLines(body) \o after :
        before \in { <<>>, <<"t", "\n", "\n">> },
        language \in CodeLanguages,
        body \in Strings(CodeLines, MaxCodeLines) \ {<<>>},
        after \in { <<>>, <<"\n", "backtick", "backtick", "backtick">>, <<"\n", "backtick", "backtick", "backtick", "\n", "u">> } }

\* Markdown texts of bullet lines of both styles, indented or not, and of
\* lines that are no bullet.
BulletLines == { <<"-", " ", "a">>, <<"*", " ", "*", "*", "b", "*", "*">>, <<"+", " ", "c">>, <<"1", ".", " ", "d">>, <<"1", "2", ".", " ", "e">>, <<" ", " ", "-", " ", "f">> }
OtherLines == { <<>>, <<"t">>, <<"-", "x">> }
ListTexts ==
    {JoinLines(ls) : ls \in Strings(BulletLines \cup OtherLines, MaxListLines)}

\* Markdown texts of table lines: rows with and without outer pipes,
\* separator lines, and lines without a pipe.
RowLines == { <<"|", "a", "|", "b", "|">>, <<"|", "1", "|", "2", "|">>, <<"a", "|", "b">> }
SeparatorLines == { <<"|", "-", "|", "-", "|">>, <<"|", "|">>, <<" ", "|", " ", "-", " ", "|", " ">> }
PlainLines == { <<>>, <<"t">> }
TableTexts ==
    {JoinLines(ls) :
        ls \in Strings(RowLines \cup SeparatorLines \cup PlainLines, MaxTableLines)}

\* Markdown texts of one line: up to MaxSpans inline spans, one of each
\* pattern (the image with an empty alt, which the link pattern does not
\* match), a letter and a space.
InlineSpans ==
    { <<"*", "*", "b", "*", "*">>, <<"*", "i", "*">>, <<"backtick", "c", "backtick">>, <<"[", "l", "]", "(", "u", ")">>, <<"!", "[", "]", "(", "s", ")">>, <<"t">>, <<" ">> }
InlineTexts == {Concat(spans) : spans \in Strings(InlineSpans, MaxSpans)}

\* Lines joined into a text with the line ending eol after every line.
RECURSIVE EndLines(_, _)
EndLines(ls, eol) ==
    IF ls = <<>> THEN <<>> ELSE Head(ls) \o eol \o EndLines(Tail(ls), eol)

\* Markdown texts written with "\n" and with "\r\n" line endings.
EitherEndingLines == { <<>>, <<"t">>, <<"#", " ", "a">>, <<"-", " ", "i">>, <<"|", "c", "|">> }
EitherEndingTexts ==
    {EndLines(ls, eol) :
        ls \in Strings(EitherEndingLines, MaxCrlfLines), eol \in { <<"\n">>, <<"\r", "\n">> }}

\* markdown::Node values built by hand, of every type.
NodeTypes ==
    {"Document", "Heading", "Paragraph", "CodeBlock", "InlineCode", "Bold",
     "Italic", "Link", "Image", "List", "ListItem", "Quote", "Table",
     "TableRow", "TableCell", "Text", "LineBreak", "HorizontalRule"}
NodeAttributes ==
    { NoAttributes,
      Put(NoAttributes, <<"h", "r", "e", "f">>, <<"u">>),
      Put(NoAttributes, <<"s", "r", "c">>, <<"s">>),
      Put(NoAttributes, <<"a", "l", "t">>, <<"a">>),
      Put(Put(NoAttributes, <<"s", "r", "c">>, <<"s">>), <<"a", "l", "t">>, <<"a">>),
      Put(NoAttributes, <<"l", "a", "n", "g", "u", "a", "g", "e">>, <<"p", "y">>) }
LeafNodes ==
    {[MdNode(type, text, level) EXCEPT !.attributes = attributes] :
        type \in NodeTypes, text \in {<<>>, <<"x">>}, level \in 0..MaxLevel,
        attributes \in NodeAttributes}
NodeChildren ==
    { MdNode("Text", <<"c">>, 0),
      MdNode("Link", <<"l">>, 0),
      [MdNode("Link", <<"l">>, 0) EXCEPT !.attributes = Put(NoAttributes, <<"h", "r", "e", "f">>, <<"u">>)],
      [MdNode("TableRow", <<>>, 0) EXCEPT !.children = <<MdNode("TableCell", <<"d">>, 0)>>] }
BuiltNodes ==
    LeafNodes
    \cup {[n EXCEPT !.children = <<c>>] : n \in LeafNodes, c \in NodeChildren}

(***************************************************************************)
(* The calls.  Each specification runs one part of the engine on every     *)
(* input of a set: the initial state holds the argument, an action is one  *)
(* call, and op_pc records which call returned last.                       *)
(***************************************************************************)
IdleCodec == input = <<>> /\ escaped = <<>> /\ unescaped = <<>>
IdleSer == node = EmptyHtmlNode /\ indent_level = 0 /\ serialized = <<>>
IdleDe == html = <<>> /\ parsed = Thrown("not called")
\* The server as constructed: no file, an empty cache, no request handled.
IdleHttp ==
    /\ files = <<>> /\ file_cache_ = <<>> /\ current_cache_size_ = 0
    /\ now = 0 /\ response = 0
IdleMd ==
    /\ markdown = <<>> /\ lines = <<>> /\ pos = 0
    /\ document = MdNode("Document", <<>>, 0)
    /\ md_out = NotCalled /\ html_out = NotCalled

\* escape_html(input)
Escape ==
    /\ op_pc = "codec"
    /\ escaped' = escape_html(input)
    /\ op_pc' = "escaped"
    /\ UNCHANGED <<http_vars, input, unescaped, ser_vars, de_vars, md_vars>>

\* unescape_html(escaped)
Unescape ==
    /\ op_pc = "escaped"
    /\ unescaped' = unescape_html(escaped)
    /\ op_pc' = "unescaped"
    /\ UNCHANGED <<http_vars, input, escaped, ser_vars, de_vars, md_vars>>

\* html::Serializer::serialize(node, indent_level)
Serialize ==
    /\ op_pc = "ser"
    /\ serialized' = serialize(node, indent_level)
    /\ op_pc' = "serialized"
    /\ UNCHANGED <<http_vars, node, indent_level, codec_vars, de_vars, md_vars>>

\* html::Deserializer::deserialize(html)
Deserialize ==
    /\ op_pc = "de"
    /\ parsed' = html_deserialize(html)
    /\ op_pc' = "deserialized"
    /\ UNCHANGED <<http_vars, html, codec_vars, ser_vars, md_vars>>

\* markdown::Deserializer::deserialize up to its loop: the Document node is
\* constructed and the text is split into lines.
ReadLines ==
    /\ op_pc = "md"
    /\ lines' = getlines(markdown)
    /\ pos' = 0
    /\ document' = MdNode("Document", <<>>, 0)
    /\ op_pc' = "parsing"
    /\ UNCHANGED <<http_vars, markdown, md_out, html_out, codec_vars, ser_vars, de_vars>>

\* One iteration of deserialize's loop: parse_block(lines, pos, document).
ParseBlock ==
    /\ op_pc = "parsing"
    /\ pos < Len(lines)
    /\ \E b \in {parse_block(lines, pos, document)} :
          pos' = b.pos /\ document' = b.parent
    /\ UNCHANGED <<http_vars, op_pc, markdown, lines, md_out, html_out,
                   codec_vars, ser_vars, de_vars>>

\* deserialize returns the document.
Return ==
    /\ op_pc = "parsing"
    /\ pos >= Len(lines)
    /\ op_pc' = "parsed"
    /\ UNCHANGED <<http_vars, md_vars, codec_vars, ser_vars, de_vars>>

\* markdown::Serializer::markdown(document)
RenderMarkdown ==
    /\ op_pc = "parsed"
    /\ md_out = NotCalled
    /\ md_out' = markdown_of(document)
    /\ UNCHANGED <<http_vars, op_pc, markdown, lines, pos, document, html_out,
                   codec_vars, ser_vars, de_vars>>

\* markdown::Serializer::html(document)
RenderHtml ==
    /\ op_pc = "parsed"
    /\ html_out = NotCalled
    /\ html_out' = html_of(document)
    /\ UNCHANGED <<http_vars, op_pc, markdown, lines, pos, document, md_out,
                   codec_vars, ser_vars, de_vars>>

\* A clock tick.
Tick ==
    /\ op_pc = "http"
    /\ now < MaxClock
    /\ now' = now + 1
    /\ UNCHANGED <<op_pc, files, file_cache_, current_cache_size_, response,
                   codec_vars, ser_vars, de_vars, md_vars>>

\* A file under root_dir_ is written: its size and last write time change.
WriteFile ==
    /\ op_pc = "http"
    /\ \E path \in ResolvedPaths, size \in FileSizes :
          files' = [files EXCEPT ![path] = File(size, now)]
    /\ UNCHANGED <<op_pc, file_cache_, current_cache_size_, now, response,
                   codec_vars, ser_vars, de_vars, md_vars>>

\* HttpServerAsync::handle_request(request); the clock can advance between
\* its calls of system_clock::now().
HandleRequest ==
    /\ op_pc = "http"
    /\ \E method \in {"GET", "POST"}, path \in RequestPaths,
          etag_match \in BOOLEAN, good \in BOOLEAN,
          t1 \in now..MaxClock :
          \E t2 \in t1..MaxClock :
             \E t3 \in t2..MaxClock :
                \E r \in handle_request(Cache(file_cache_, current_cache_size_),
                                        method, path, files[resolve_path(path)],
                                        etag_match, good, t1, t2, t3) :
                   /\ file_cache_' = r.cache.map
                   /\ current_cache_size_' = r.cache.size
                   /\ response' = r.status
                   /\ now' = t3
    /\ UNCHANGED <<op_pc, files, codec_vars, ser_vars, de_vars, md_vars>>

\* The server over every sequence of requests, file writes and clock ticks.
InitHttp ==
    /\ op_pc = "http"
    /\ files \in [ResolvedPaths -> {NoFile} \cup {File(size, 0) : size \in FileSizes}]
    /\ file_cache_ = <<>> /\ current_cache_size_ = 0 /\ now = 0 /\ response = 0
    /\ IdleCodec /\ IdleSer /\ IdleDe /\ IdleMd
NextHttp == Tick \/ WriteFile \/ HandleRequest
SpecHttp == InitHttp /\ [][NextHttp]_vars

InitCodec == op_pc = "codec" /\ input \in CodecTexts /\ escaped = <<>>
             /\ unescaped = <<>> /\ IdleSer /\ IdleDe /\ IdleMd /\ IdleHttp
NextCodec == Escape \/ Unescape
SpecCodec == InitCodec /\ [][NextCodec]_vars

InitSer == op_pc = "ser" /\ node \in SerNodes /\ indent_level \in 0..MaxIndent
           /\ serialized = <<>> /\ IdleCodec /\ IdleDe /\ IdleMd /\ IdleHttp
NextSer == Serialize
SpecSer == InitSer /\ [][NextSer]_vars

\* The serialization of a bare element.
InitBare == op_pc = "ser" /\ node \in BareNodes /\ indent_level \in 0..MaxIndent
            /\ serialized = <<>> /\ IdleCodec /\ IdleDe /\ IdleMd /\ IdleHttp
SpecBare == InitBare /\ [][NextSer]_vars

InitDe == op_pc = "de" /\ html \in HtmlTexts /\ parsed = Thrown("not called")
          /\ IdleCodec /\ IdleSer /\ IdleMd /\ IdleHttp
NextDe == Deserialize
SpecDe == InitDe /\ [][NextDe]_vars

\* The markdown parser and both renderings of its result, on the texts of T.
InitMd(T) ==
    /\ op_pc = "md" /\ markdown \in T /\ lines = <<>> /\ pos = 0
    /\ document = MdNode("Document", <<>>, 0)
    /\ md_out = NotCalled /\ html_out = NotCalled
    /\ IdleCodec /\ IdleSer /\ IdleDe /\ IdleHttp
NextMd == ReadLines \/ ParseBlock \/ Return \/ RenderMarkdown \/ RenderHtml
SpecMd == InitMd(GeneralTexts) /\ [][NextMd]_vars
SpecBlank == InitMd(BlankTexts) /\ [][NextMd]_vars
SpecHeading == InitMd(HeadingTexts) /\ [][NextMd]_vars
SpecImage == InitMd(ImageTexts) /\ [][NextMd]_vars
SpecCode == InitMd(CodeTexts) /\ [][NextMd]_vars
SpecList == InitMd(ListTexts) /\ [][NextMd]_vars
SpecTable == InitMd(TableTexts) /\ [][NextMd]_vars
SpecInline == InitMd(InlineTexts) /\ [][NextMd]_vars
SpecCrlf == InitMd(EitherEndingTexts) /\ [][NextMd]_vars
\* Image literals with alt text and inline markup with an image without.
SpecPicture == InitMd(ImageTexts \cup InlineTexts) /\ [][NextMd]_vars

\* The parsers run to completion: every markdown text of GeneralTexts and
\* every markup text.  A call is pending until deserialize has returned and,
\* for a markdown text, both renderings have been made.
InitTerm == InitMd(GeneralTexts) \/ InitDe
NextTerm == NextMd \/ NextDe
CallPending ==
    \/ op_pc \in {"md", "parsing", "de"}
    \/ (op_pc = "parsed" /\ (md_out = NotCalled \/ html_out = NotCalled))
\* The calls are synchronous, so a pending call is always run: weak fairness
\* of NextTerm, WF_vars(NextTerm), with ENABLED <<NextTerm>>_vars written as
\* the state predicate CallPending.
CallsTaken == []<>(~CallPending) \/ []<><<NextTerm>>_vars
\* The steps of deserialize around its loop are fair as well.
SpecTerm ==
    /\ InitTerm /\ [][NextTerm]_vars
    /\ WF_vars(ReadLines) /\ WF_vars(Return)
    /\ CallsTaken

\* Both renderings of a markdown::Node built by hand.
InitRender ==
    /\ op_pc = "parsed" /\ document \in BuiltNodes
    /\ markdown = <<>> /\ lines = <<>> /\ pos = 0
    /\ md_out = NotCalled /\ html_out = NotCalled
    /\ IdleCodec /\ IdleSer /\ IdleDe /\ IdleHttp
NextRender == RenderMarkdown \/ RenderHtml
SpecRender == InitRender /\ [][NextRender]_vars

\* Every call on every input.
Init ==
    \/ InitCodec \/ InitSer \/ InitBare \/ InitDe \/ InitRender \/ InitHttp
    \/ InitMd(GeneralTexts \cup BlankTexts \cup HeadingTexts \cup ImageTexts
              \cup CodeTexts \cup ListTexts \cup TableTexts \cup InlineTexts
              \cup EitherEndingTexts)
Next ==
    \/ Escape \/ Unescape \/ Serialize \/ Deserialize
    \/ ReadLines \/ ParseBlock \/ Return \/ RenderMarkdown \/ RenderHtml
    \/ Tick \/ WriteFile \/ HandleRequest
Spec == Init /\ [][Next]_vars

(***************************************************************************)
(* Properties.                                                             *)
(***************************************************************************)
BlockKinds == {"Paragraph", "Heading", "CodeBlock", "List", "Quote", "Table",
               "HorizontalRule"}
InlineKinds == {"Text", "Bold", "Italic", "InlineCode", "Link", "Image"}

\* A Paragraph holding the single Text node of text.
TextParagraph(text) ==
    [MdNode("Paragraph", <<>>, 0) EXCEPT !.children = <<MdNode("Text", text, 0)>>]

\* A non-empty line that none of the block rules before the paragraph's matches.
MatchesNoBlockRule(line) ==
    /\ line # <<>>
    /\ ~is_horizontal_rule(line)
    /\ ~heading_match(line).matched
    /\ ~code_match(line).matched
    /\ ~quote_match(line).matched
    /\ ~list_match(line).matched
    /\ ~has_pipe(line)

\* C1: markdown::Deserializer::deserialize is total.  At every point of the
\* parse the root is a Document and its children are block nodes, the line
\* cursor never passes the end, and deserialize returns with every line
\* consumed; a Paragraph always holds at least one inline node, a text of one
\* line that matches no block rule yields exactly one Paragraph, and a line
\* without any markup yields the Paragraph holding the Text of that line.
C1_ParseIsTotal ==
    /\ document.type = "Document"
    /\ pos <= Len(lines)
    /\ \A i \in 1..Len(document.children) :
          LET block == document.children[i]
          IN  /\ block.type \in BlockKinds
              /\ block.type = "Paragraph" =>
                    /\ block.children # <<>>
                    /\ \A j \in 1..Len(block.children) :
                          block.children[j].type \in InlineKinds
    /\ op_pc = "parsed" =>
          /\ pos = Len(lines)
          /\ (Len(lines) = 1 /\ MatchesNoBlockRule(lines[1])) =>
                (Len(document.children) = 1
                 /\ document.children[1].type = "Paragraph")
          /\ markdown \in { <<"t">>, <<" ">>, <<"#", "#", "#", "#", "#", "#", "#", " ", "a">> } =>
                document.children = <<TextParagraph(markdown)>>

\* C1 witness: the seven-# line, which matches no block rule, was parsed
\* into a Paragraph holding its Text.
C1_Witness ==
    /\ op_pc = "parsed"
    /\ markdown = <<"#", "#", "#", "#", "#", "#", "#", " ", "a">>
    /\ document.children = <<TextParagraph(<<"#", "#", "#", "#", "#", "#", "#", " ", "a">>)>>

\* The tags of a text as a reader of the markup sees them: each "<" up to
\* the next ">" (or the end of the text).
RECURSIVE TagsOf(_, _)
TagsOf(s, p) ==
    IF p >= Len(s) THEN <<>>
    ELSE IF At(s, p) = "<"
    THEN LET q == ScanUntil(s, p, {">"})
         IN  <<SubSeq(s, p + 1, Min(q + 1, Len(s)))>> \o TagsOf(s, q + 1)
    ELSE TagsOf(s, p + 1)

IsClosingTag(t) == Len(t) >= 2 /\ t[2] = "/"
IsSelfClosingTag(t) == Len(t) >= 3 /\ t[Len(t) - 1] = "/" /\ t[Len(t)] = ">"
\* The name of a tag, lower-cased: the characters after "<" or "</" up to a
\* space, a "/" or the ">".
TagName(t) ==
    LET from == IF IsClosingTag(t) THEN 2 ELSE 1
    IN  Lowered(t, from, ScanUntil(t, from, {" ", "/", ">"}))
IsOpeningTag(t) == ~IsClosingTag(t) /\ ~IsSelfClosingTag(t) /\ TagName(t) # <<>>

\* Whether the tags leave an opened element without its closing tag: open
\* is the stack of the names of the elements opened and not yet closed.
RECURSIVE LeavesUnclosed(_, _)
LeavesUnclosed(tags, open) ==
    IF tags = <<>> THEN open # <<>>
    ELSE LET t == Head(tags)
         IN  IF IsOpeningTag(t)
             THEN LeavesUnclosed(Tail(tags), <<TagName(t)>> \o open)
             ELSE IF IsClosingTag(t) /\ open # <<>>
             THEN TagName(t) # Head(open) \/ LeavesUnclosed(Tail(tags), Tail(open))
             ELSE LeavesUnclosed(Tail(tags), open)

HasNoRoot(s) ==
    \A i \in 1..Len(TagsOf(s, 0)) : IsClosingTag(TagsOf(s, 0)[i])
HasEmptyTagName(s) ==
    \E i \in 1..Len(TagsOf(s, 0)) :
        ~IsClosingTag(TagsOf(s, 0)[i]) /\ TagName(TagsOf(s, 0)[i]) = <<>>
HasUnclosedElement(s) == LeavesUnclosed(TagsOf(s, 0), <<>>)

\* C2: html::Deserializer::deserialize throws, and returns no node, for
\* every text that has no root element, has a tag with an empty name, or
\* opens a non-self-closing element that no closing tag of the same name
\* closes before the end of the text.
C2_MalformedMarkupFails ==
    (op_pc = "deserialized"
     /\ (HasNoRoot(html) \/ HasEmptyTagName(html) \/ HasUnclosedElement(html)))
    => ~parsed.ok

\* C3: markdown::Serializer::markdown and markdown::Serializer::html return
\* a string and raise nothing, for a node of every kind whatever its text,
\* level, children and attributes.
C3_RenderNeverFails ==
    /\ md_out # NotCalled => md_out.ok
    /\ html_out # NotCalled => html_out.ok

\* The entity the claim gives for each reserved character.
ReservedEntity(c) ==
    CASE c = "&" -> <<"&", "a", "m", "p", ";">>
      [] c = "<" -> <<"&", "l", "t", ";">>
      [] c = ">" -> <<"&", "g", "t", ";">>
      [] c = "\"" -> <<"&", "q", "u", "o", "t", ";">>
      [] c = "'" -> <<"&", "#", "3", "9", ";">>

\* C4: on every text over & < > " ' a letter, a digit and the space,
\* escape_html replaces each reserved character by its entity and copies
\* every other character, and unescape_html of the result is the text.
C4_RoundTrip ==
    /\ op_pc \in {"escaped", "unescaped"} =>
          escaped = Concat([i \in 1..Len(input) |->
                               IF input[i] \in {"&", "<", ">", "\"", "'"}
                               THEN ReservedEntity(input[i]) ELSE <<input[i]>>])
    /\ op_pc = "unescaped" => unescaped = input

\* C4 witness: a text of three reserved characters went through both calls.
C4_Witness ==
    /\ op_pc = "unescaped"
    /\ input = <<"&", "'", "<">>
    /\ escaped = <<"&", "a", "m", "p", ";", "&", "#", "3", "9", ";", "&", "l", "t", ";">>
    /\ unescaped = input

\* The nodes the serializer emits raw, in the words of the claim.
IsRawCode(n) ==
    /\ n.tag = <<"c", "o", "d", "e">>
    /\ <<"c", "l", "a", "s", "s">> \in DOMAIN n.attributes
    /\ StartsWith(n.attributes[<<"c", "l", "a", "s", "s">>], <<"l", "a", "n", "g", "u", "a", "g", "e", "-">>)
EmittedText(n) == IF IsRawCode(n) THEN n.text ELSE escape_html(n.text)
EmittedAttribute(n, key) ==
    <<" ">> \o key \o <<"=", "\"">> \o escape_html(n.attributes[key]) \o <<"\"">>
VoidTags == { <<"i", "m", "g">>, <<"h", "r">>, <<"b", "r">> }

\* C5: in the output of html::Serializer::serialize a bare text node is its
\* indentation and its escaped text; the text of an element that is not
\* self-closing follows the ">" of its opening tag, raw exactly when the
\* element is a code element whose class begins with "language-" and escaped
\* otherwise, and is followed by the children or, without any, by the
\* closing tag; the same holds of each child; every attribute value is emitted escaped, on that code
\* element too.
C5_TextEscapedUnlessLanguageCode ==
    op_pc = "serialized" =>
      LET after == substr_from(serialized, ScanUntil(serialized, 0, {">"}) + 1)
          rest == substr_from(after, Len(EmittedText(node)))
      IN  /\ node.tag = <<>> =>
                serialized = (IF node.text # <<>>
                              THEN Repeat(indent_level * 2, " ") \o escape_html(node.text)
                              ELSE <<>>)
          /\ (node.tag # <<>> /\ node.tag \notin VoidTags) =>
                /\ StartsWith(after, EmittedText(node))
                /\ node.children = <<>> => rest = <<"<", "/">> \o node.tag \o <<">">>
                /\ \A i \in 1..Len(node.children) :
                      LET child == node.children[i]
                      IN  IF child.tag = <<>>
                          THEN Contains(serialized, escape_html(child.text))
                          ELSE /\ child.tag \notin VoidTags =>
                                     Contains(serialized,
                                              <<">">> \o EmittedText(child) \o <<"<">>)
                               /\ \A key \in DOMAIN child.attributes :
                                     Contains(serialized, EmittedAttribute(child, key))
          /\ node.tag # <<>> =>
                \A key \in DOMAIN node.attributes :
                    Contains(serialized, EmittedAttribute(node, key))

\* C5 witness: a code element of class language-c with markup in its text
\* and reserved characters in an attribute was serialized.
C5_Witness ==
    /\ op_pc = "serialized"
    /\ node.tag = <<"c", "o", "d", "e">>
    /\ node.text = <<"<", "y", ">">>
    /\ <<"h", "r", "e", "f">> \in DOMAIN node.attributes
    /\ Contains(serialized, <<">", "<", "y", ">", "<">>)
    /\ Contains(serialized, <<" ", "h", "r", "e", "f", "=", "\"", "&", "q", "u", "o", "t", ";", "q", "&", "#", "3", "9", ";", "\"">>)

\* The fenced code blocks of the parsed document.
CodeBlocks == {i \in 1..Len(document.children) : document.children[i].type = "CodeBlock"}

\* C6 as stated: html() of a parsed text emits every fenced code block as
\* <pre class="code-block"> wrapping a code element that holds the content of
\* the block raw.
C6_CodeBlockRaw ==
    (html_out # NotCalled /\ html_out.ok) =>
        \A i \in CodeBlocks :
            /\ Contains(html_out.value, <<"<", "p", "r", "e", " ", "c", "l", "a", "s", "s", "=", "\"", "c", "o", "d", "e", "-", "b", "l", "o", "c", "k", "\"", ">">>)
            /\ Contains(html_out.value,
                        <<">">> \o document.children[i].text \o <<"<", "/", "c", "o", "d", "e", ">">>)

\* C6 amended: every fenced code block is parsed into a CodeBlock that has a
\* language attribute exactly when the fence names a language; html() emits
\* it as <pre class="code-block"> wrapping <code class="language-X"> with
\* the content raw when it has the language X, and wrapping <code> with the
\* content escaped when it has none.
C6_CodeBlockRawWithLanguage ==
    /\ op_pc = "parsed" =>
          /\ CodeBlocks # {}
          /\ \A i \in CodeBlocks :
                (<<"l", "a", "n", "g", "u", "a", "g", "e">> \in DOMAIN document.children[i].attributes)
                <=> Contains(markdown, <<"backtick", "backtick", "backtick", "p", "y">>)
    /\ (html_out # NotCalled /\ html_out.ok) =>
          \A i \in CodeBlocks :
              LET block == document.children[i]
              IN  /\ Contains(html_out.value, <<"<", "p", "r", "e", " ", "c", "l", "a", "s", "s", "=", "\"", "c", "o", "d", "e", "-", "b", "l", "o", "c", "k", "\"", ">">>)
                  /\ IF <<"l", "a", "n", "g", "u", "a", "g", "e">> \in DOMAIN block.attributes
                     THEN Contains(html_out.value,
                                   <<"<", "c", "o", "d", "e", " ", "c", "l", "a", "s", "s", "=", "\"", "l", "a", "n", "g", "u", "a", "g", "e", "-">>
                                   \o block.attributes[<<"l", "a", "n", "g", "u", "a", "g", "e">>] \o <<"\"", ">">>
                                   \o block.text \o <<"<", "/", "c", "o", "d", "e", ">">>)
                     ELSE Contains(html_out.value,
                                   <<"<", "c", "o", "d", "e", ">">> \o escape_html(block.text) \o <<"<", "/", "c", "o", "d", "e", ">">>)

\* C6 witness: a fence without a language holding markup was rendered, the
\* markup escaped.
C6_Witness ==
    /\ html_out # NotCalled /\ html_out.ok
    /\ markdown = <<"backtick", "backtick", "backtick", "\n", "<", "b", ">", "\n", "backtick", "backtick", "backtick">>
    /\ Contains(html_out.value, <<"<", "c", "o", "d", "e", ">", "&", "l", "t", ";", "b", "&", "g", "t", ";", "<", "/", "c", "o", "d", "e", ">">>)

\* The attributes of a node in ascending order of the keys the model uses.
KeyOrder == << <<"a", "l", "t">>, <<"c", "l", "a", "s", "s">>, <<"h", "r", "e", "f">>, <<"i", "d">>, <<"s", "r", "c">> >>
RECURSIVE AttributesInOrder(_, _)
AttributesInOrder(n, keys) ==
    IF keys = <<>> THEN <<>>
    ELSE (IF Head(keys) \in DOMAIN n.attributes
          THEN EmittedAttribute(n, Head(keys)) ELSE <<>>)
         \o AttributesInOrder(n, Tail(keys))

\* C7: for a node whose tag is img, hr or br, serialize returns exactly the
\* indentation, "<tag", one  key="escaped value"  per attribute in ascending
\* key order, and " />": nothing of the node's text or children.
C7_SelfClosing ==
    (op_pc = "serialized" /\ node.tag \in VoidTags) =>
        /\ serialized = Repeat(indent_level * 2, " ") \o <<"<">> \o node.tag
                        \o AttributesInOrder(node, KeyOrder) \o <<" ", "/", ">">>
        /\ EndsWith(serialized, <<" ", "/", ">">>)

\* C7 witness: a br carrying text, a child and attributes was serialized.
C7_Witness ==
    /\ op_pc = "serialized"
    /\ node.tag = <<"b", "r">>
    /\ node.text # <<>>
    /\ node.children # <<>>
    /\ DOMAIN node.attributes = { <<"c", "l", "a", "s", "s">>, <<"h", "r", "e", "f">>, <<"i", "d">> }
    /\ EndsWith(serialized, <<" ", "i", "d", "=", "\"", "\"", " ", "/", ">">>)

\* The leading # of a line, the whitespace run after them, and the rest.
Hashes(line) == ScanWhile(line, 0, {"#"})
SpaceRun(line) == ScanWhile(line, Hashes(line), WhiteSpace) - Hashes(line)
Remainder(line) == substr_from(line, Hashes(line) + SpaceRun(line))
OneLine(text) == text # <<>> /\ \A i \in 1..Len(text) : text[i] # "\n"

\* C8 as stated: a line is a Heading exactly when it is 1 to 6 #, then
\* whitespace, then at least one more character, its level the number of #
\* and its text the remainder; every Heading has a level in 1..6; a line of
\* 7 or more # is a Paragraph.  (A Heading must have that shape, and a line
\* of that shape with characters after the whitespace run must be a Heading.)
C8_HeadingGrammar ==
    /\ \A i \in 1..Len(document.children) :
          document.children[i].type = "Heading" =>
              document.children[i].level \in 1..6
    /\ (op_pc = "parsed" /\ OneLine(markdown)) =>
          /\ (Len(document.children) = 1 /\ document.children[1].type = "Heading")
             => (/\ Hashes(markdown) \in 1..6
                 /\ SpaceRun(markdown) >= 1
                 /\ Len(markdown) >= Hashes(markdown) + 2
                 /\ document.children[1].level = Hashes(markdown))
          /\ (/\ Hashes(markdown) \in 1..6
              /\ SpaceRun(markdown) >= 1
              /\ Remainder(markdown) # <<>>)
             => document.children =
                    <<MdNode("Heading", Remainder(markdown), Hashes(markdown))>>
          /\ Hashes(markdown) >= 7 =>
                (Len(document.children) = 1
                 /\ document.children[1].type = "Paragraph")

\* The text of the heading a line of 1 to 6 # and whitespace opens: the
\* characters after the whitespace run, or the last whitespace character
\* when nothing follows the run.
HeadingText(line) ==
    IF Remainder(line) # <<>> THEN Remainder(line)
    ELSE IF SpaceRun(line) >= 2 THEN <<line[Len(line)]>>
    ELSE <<>>
IsHeadingLine(line) ==
    /\ Hashes(line) \in 1..6
    /\ SpaceRun(line) >= 1
    /\ HeadingText(line) # <<>>
    /\ \A i \in 1..Len(HeadingText(line)) : HeadingText(line)[i] # "\r"

\* C8 amended: a line is a Heading exactly when it is 1 to 6 #, then
\* whitespace, then at least one more character, and the heading text (the
\* characters after the whitespace run, or the last whitespace character
\* when nothing follows the run) holds no carriage return; its level is the
\* number of # and its text that text; every Heading has a level in 1..6; a
\* line of 7 or more # is never a Heading: it is a Table when it holds a |
\* and a Paragraph otherwise.
C8_HeadingGrammarAmended ==
    /\ \A i \in 1..Len(document.children) :
          document.children[i].type = "Heading" =>
              document.children[i].level \in 1..6
    /\ (op_pc = "parsed" /\ OneLine(markdown)) =>
          /\ IsHeadingLine(markdown) =>
                document.children =
                    <<MdNode("Heading", HeadingText(markdown), Hashes(markdown))>>
          /\ ~IsHeadingLine(markdown) =>
                \A i \in 1..Len(document.children) :
                    document.children[i].type # "Heading"
          /\ Hashes(markdown) >= 7 =>
                /\ Len(document.children) = 1
                /\ document.children[1].type =
                      IF has_pipe(markdown) THEN "Table" ELSE "Paragraph"

\* C8 witness: a line of six # was parsed into a Heading of level 6.
C8_Witness ==
    /\ op_pc = "parsed"
    /\ markdown = <<"#", "#", "#", "#", "#", "#", " ", " ", "a">>
    /\ document.children = <<MdNode("Heading", <<"a">>, 6)>>

\* The alt and the src of the image literal ![alt](src).
AltOf(text) == SubSeq(text, 3, ScanUntil(text, 2, {"]"}))
SrcOf(text) == SubSeq(text, ScanUntil(text, 2, {"]"}) + 3, Len(text) - 1)
\* The stray "!" and the Link that the image literal is tokenized into.
StrayLink(text) ==
    [MdNode("Paragraph", <<>>, 0) EXCEPT !.children =
        << MdNode("Text", <<"!">>, 0),
           [MdNode("Link", AltOf(text), 0) EXCEPT !.attributes =
               Put(NoAttributes, <<"h", "r", "e", "f">>, SrcOf(text))] >>]

\* C9 as stated: every image literal ![alt](src) with a non-empty alt and
\* src, alone in a paragraph, is parsed into the Text "!" followed by the
\* Link of text alt and href src.
C9_ImageIsStrayLink ==
    op_pc = "parsed" => document.children = <<StrayLink(markdown)>>

\* Whether a text holds what the bold, italic or inline-code pattern
\* matches: two *, or two backticks with other characters between them.
HoldsEmphasisOrCode(text) ==
    \/ Count(text, "*") >= 2
    \/ \E i, j \in 1..Len(text) :
          /\ i + 1 < j
          /\ text[i] = "backtick" /\ text[j] = "backtick"
          /\ \A k \in (i + 1)..(j - 1) : text[k] # "backtick"

\* C9 amended: every image literal ![alt](src) with a non-empty alt and
\* src, alone in a paragraph, that holds neither two * nor two backticks
\* with other characters between them, is parsed into the Text "!" followed
\* by the Link of text alt and href src; whatever the literal holds, no
\* Image node is produced.
C9_PlainImageIsStrayLink ==
    op_pc = "parsed" =>
        /\ ~HoldsEmphasisOrCode(markdown) =>
              document.children = <<StrayLink(markdown)>>
        /\ \A i \in 1..Len(document.children) :
              \A j \in 1..Len(document.children[i].children) :
                  document.children[i].children[j].type # "Image"

\* C9 witness: ![a](a) was parsed into the stray "!" and a Link.
C9_Witness ==
    /\ op_pc = "parsed"
    /\ markdown = <<"!", "[", "a", "]", "(", "a", ")">>
    /\ document.children = <<StrayLink(<<"!", "[", "a", "]", "(", "a", ")">>)>>
    /\ document.children[1].children[2].type = "Link"

\* C10: every blank line, empty or of whitespace only, is skipped and
\* produces no node: a text made only of blank lines is parsed into a
\* Document without children.
C10_BlankLinesSkipped ==
    (op_pc = "parsed" /\ \A i \in 1..Len(markdown) : isspace(markdown[i]))
    => document.children = <<>>

\* The inline nodes a bullet line's text parses into, by line.
BulletNodes(line) ==
    CASE line = <<"-", " ", "a">> -> <<MdNode("Text", <<"a">>, 0)>>
      [] line = <<"*", " ", "*", "*", "b", "*", "*">> -> <<MdNode("Bold", <<"b">>, 0)>>
      [] line = <<"+", " ", "c">> -> <<MdNode("Text", <<"c">>, 0)>>
      [] line = <<"1", ".", " ", "d">> -> <<MdNode("Text", <<"d">>, 0)>>
      [] line = <<"1", "2", ".", " ", "e">> -> <<MdNode("Text", <<"e">>, 0)>>
      [] line = <<" ", " ", "-", " ", "f">> -> <<MdNode("Text", <<"f">>, 0)>>

OrderedBullets == { <<"1", ".", " ", "d">>, <<"1", "2", ".", " ", "e">> }

\* The number of bullet lines at the head of the lines ls.
RECURSIVE BulletRun(_)
BulletRun(ls) ==
    IF ls # <<>> /\ Head(ls) \in BulletLines THEN 1 + BulletRun(Tail(ls)) ELSE 0

\* The ListItem of a bullet line in a list whose first line is `first`.
ExpectedItem(first, line) ==
    [type |-> "ListItem", text |-> <<>>, level |-> 0,
     attributes |-> IF first \in OrderedBullets
                    THEN Put(NoAttributes, <<"o", "r", "d", "e", "r", "e", "d">>, <<"t", "r", "u", "e">>)
                    ELSE NoAttributes,
     children |-> BulletNodes(line)]

\* C11: a text whose first line is a bullet line yields, as the first block,
\* one List without text or attributes holding one flat ListItem per line
\* of the leading run of bullet lines of either style, in order; every item
\* carries ordered = "true" when the first line is an ordered bullet and no
\* attribute otherwise; the item's children are the inline nodes of the text
\* after the bullet; a line that is no bullet right after the run starts a
\* block that is not a List.
C11_ListOfBulletRun ==
    (op_pc = "parsed" /\ markdown \in ListTexts
     /\ lines # <<>> /\ lines[1] \in BulletLines) =>
        LET list == document.children[1]
            run == BulletRun(lines)
        IN  /\ list.type = "List" /\ list.text = <<>>
            /\ list.attributes = NoAttributes
            /\ Len(list.children) = run
            /\ \A i \in 1..run : list.children[i] = ExpectedItem(lines[1], lines[i])
            /\ (run < Len(lines) /\ lines[run + 1] # <<>>) =>
                  document.children[2].type # "List"

\* C11 witness: an ordered bullet, two unordered ones, then no more lines.
C11_Witness ==
    /\ op_pc = "parsed"
    /\ markdown = <<"1", ".", " ", "d", "\n", "-", " ", "a", "\n", "*", " ", "*", "*", "b", "*", "*">>
    /\ Len(document.children) = 1
    /\ Len(document.children[1].children) = 3
    /\ document.children[1].children[3].attributes
           = Put(NoAttributes, <<"o", "r", "d", "e", "r", "e", "d">>, <<"t", "r", "u", "e">>)

\* The lines of ls from the first on that hold a pipe: the lines of the table.
RECURSIVE PipeRun(_)
PipeRun(ls) ==
    IF ls # <<>> /\ Head(ls) \in RowLines \cup SeparatorLines
    THEN <<Head(ls)>> \o PipeRun(Tail(ls))
    ELSE <<>>

\* The lines of ls that are no separator line, in order.
RECURSIVE WithoutSeparators(_)
WithoutSeparators(ls) ==
    IF ls = <<>> THEN <<>>
    ELSE (IF Head(ls) \in SeparatorLines THEN <<>> ELSE <<Head(ls)>>)
         \o WithoutSeparators(Tail(ls))

\* The text of the first cell of a row line.
FirstCell(line) ==
    CASE line = <<"|", "a", "|", "b", "|">> -> <<"a">>
      [] line = <<"|", "1", "|", "2", "|">> -> <<"1">>
      [] line = <<"a", "|", "b">> -> <<"b">>

\* C12: a text whose first line holds a pipe yields, as the first block, a
\* Table whose children are TableRows, one per line of the leading run of
\* pipe lines that is no separator line, in order (told apart by their first
\* cell); no separator line yields a TableRow, wherever it stands in the table
\* and however many there are.
C12_SeparatorsYieldNoRow ==
    (op_pc = "parsed" /\ markdown \in TableTexts
     /\ lines # <<>> /\ lines[1] \in RowLines \cup SeparatorLines) =>
        LET table == document.children[1]
            rows == WithoutSeparators(PipeRun(lines))
        IN  /\ table.type = "Table"
            /\ Len(table.children) = Len(rows)
            /\ \A i \in 1..Len(rows) :
                  /\ table.children[i].type = "TableRow"
                  /\ table.children[i].children # <<>>
                  /\ table.children[i].children[1].children
                        = <<MdNode("Text", FirstCell(rows[i]), 0)>>

\* C12 witness: the header, a separator line and a row yield two TableRows.
C12_Witness ==
    /\ op_pc = "parsed"
    /\ markdown = <<"|", "a", "|", "b", "|", "\n", "|", "-", "|", "-", "|", "\n", "|", "1", "|", "2", "|">>
    /\ Len(document.children) = 1
    /\ document.children[1].type = "Table"
    /\ Len(document.children[1].children) = 2

\* The mapping table of the conversion: the tag of a node kind.
TagOf(n) ==
    CASE n.type = "Document" -> <<"d", "i", "v">>
      [] n.type = "Heading" -> <<"h">> \o to_string(n.level)
      [] n.type = "Paragraph" -> <<"p">>
      [] n.type = "CodeBlock" -> <<"p", "r", "e">>
      [] n.type = "InlineCode" -> <<"c", "o", "d", "e">>
      [] n.type = "Bold" -> <<"s", "t", "r", "o", "n", "g">>
      [] n.type = "Italic" -> <<"e", "m">>
      [] n.type = "Link" -> <<"a">>
      [] n.type = "Image" -> <<"i", "m", "g">>
      [] n.type = "List" -> <<"u", "l">>
      [] n.type = "ListItem" -> <<"l", "i">>
      [] n.type = "Quote" -> <<"b", "l", "o", "c", "k", "q", "u", "o", "t", "e">>
      [] n.type = "Table" -> <<"t", "a", "b", "l", "e">>
      [] n.type = "TableRow" -> <<"t", "r">>
      [] n.type = "TableCell" -> <<"t", "d">>
      [] n.type = "Text" -> <<>>
      [] n.type = "LineBreak" -> <<"b", "r">>
      [] n.type = "HorizontalRule" -> <<"h", "r">>

\* The mapping table of the conversion: the class of a node kind other than
\* Document and Text, which have none.
ClassOf(type) ==
    CASE type = "Heading" -> <<"h", "e", "a", "d", "i", "n", "g", "-", "p", "r", "i", "m", "a", "r", "y">>
      [] type = "Paragraph" -> <<"p", "a", "r", "a", "g", "r", "a", "p", "h">>
      [] type = "CodeBlock" -> <<"c", "o", "d", "e", "-", "b", "l", "o", "c", "k">>
      [] type = "InlineCode" -> <<"i", "n", "l", "i", "n", "e", "-", "c", "o", "d", "e">>
      [] type = "Bold" -> <<"b", "o", "l", "d">>
      [] type = "Italic" -> <<"i", "t", "a", "l", "i", "c">>
      [] type = "Link" -> <<"l", "i", "n", "k">>
      [] type = "Image" -> <<"i", "m", "a", "g", "e">>
      [] type = "List" -> <<"l", "i", "s", "t">>
      [] type = "ListItem" -> <<"l", "i", "s", "t", "-", "i", "t", "e", "m">>
      [] type = "Quote" -> <<"q", "u", "o", "t", "e">>
      [] type = "Table" -> <<"t", "a", "b", "l", "e">>
      [] type = "TableRow" -> <<"t", "a", "b", "l", "e", "-", "r", "o", "w">>
      [] type = "TableCell" -> <<"t", "a", "b", "l", "e", "-", "c", "e", "l", "l">>
      [] type = "LineBreak" -> <<"l", "i", "n", "e", "-", "b", "r", "e", "a", "k">>
      [] type = "HorizontalRule" -> <<"h", "o", "r", "i", "z", "o", "n", "t", "a", "l", "-", "r", "u", "l", "e">>

\* The kinds whose children are converted, and those of them whose own text
\* follows the children as a bare text node.
ContainerKinds ==
    {"Document", "Paragraph", "Bold", "Italic", "List", "ListItem", "Quote",
     "Table", "TableRow", "TableCell"}
TextAfterKinds == {"Paragraph", "Bold", "Italic", "ListItem", "Quote", "TableCell"}
\* The kinds whose text is the text of the element itself.
OwnTextKinds == {"Heading", "InlineCode", "Link", "Text"}

\* Whether the node holds what its conversion reads: a Link its href, an
\* Image its src and alt, and so for the children of a container.
RECURSIVE Convertible(_)
Convertible(n) ==
    /\ n.type = "Link" => <<"h", "r", "e", "f">> \in DOMAIN n.attributes
    /\ n.type = "Image" => <<"s", "r", "c">> \in DOMAIN n.attributes /\ <<"a", "l", "t">> \in DOMAIN n.attributes
    /\ n.type \in ContainerKinds =>
          \A i \in 1..Len(n.children) : Convertible(n.children[i])

\* The tag tree the mapping table gives for a node.
RECURSIVE ExpectedTree(_)
ExpectedTree(n) ==
    LET class == IF n.type \in {"Document", "Text"} THEN NoAttributes
                 ELSE Class(ClassOf(n.type))
        attributes ==
            CASE n.type = "Link" -> Put(class, <<"h", "r", "e", "f">>, n.attributes[<<"h", "r", "e", "f">>])
              [] n.type = "Image" ->
                    Put(Put(class, <<"s", "r", "c">>, n.attributes[<<"s", "r", "c">>]),
                        <<"a", "l", "t">>, n.attributes[<<"a", "l", "t">>])
              [] OTHER -> class
        code == HtmlNode(<<"c", "o", "d", "e">>, n.text,
                         IF <<"l", "a", "n", "g", "u", "a", "g", "e">> \in DOMAIN n.attributes
                         THEN Class(<<"l", "a", "n", "g", "u", "a", "g", "e", "-">> \o n.attributes[<<"l", "a", "n", "g", "u", "a", "g", "e">>])
                         ELSE NoAttributes,
                         <<>>)
        children ==
            CASE n.type = "CodeBlock" -> <<code>>
              [] n.type \in ContainerKinds ->
                    [i \in 1..Len(n.children) |-> ExpectedTree(n.children[i])]
                    \o (IF n.type \in TextAfterKinds /\ n.text # <<>>
                        THEN <<HtmlNode(<<>>, n.text, NoAttributes, <<>>)>> ELSE <<>>)
              [] OTHER -> <<>>
    IN  HtmlNode(TagOf(n), IF n.type \in OwnTextKinds THEN n.text ELSE <<>>,
                 attributes, children)

C14_MarkdownRoundTrip ==
    (op_pc = "parsed" /\ md_out # NotCalled) =>
        /\ md_out.ok
        /\ md_deserialize(md_out.value) = document

\* C15: a paragraph line followed by a line that is neither blank nor a
\* heading line forms one Paragraph of both lines joined with one space (a
\* list, quote, table, rule or fence line is absorbed), and a paragraph line
\* followed by the heading line "# a" forms a Paragraph of the first line
\* and then the Heading of level 1 and text "a".
C15_ParagraphContinuation ==
    (op_pc = "parsed" /\ Len(lines) = 2 /\ lines[1] = <<"t">>) =>
        /\ lines[2] \in { <<"-", " ", "i">>, <<"1", ".", " ", "j">>, <<">", " ", "q">>, <<"|", "a", "|", "b", "|">>, <<"-", "-", "-">>, <<"backtick", "backtick", "backtick">>, <<"t">> } =>
              document.children = <<TextParagraph(<<"t", " ">> \o lines[2])>>
        /\ lines[2] = <<"#", " ", "a">> =>
              document.children
                  = <<TextParagraph(<<"t">>), MdNode("Heading", <<"a">>, 1)>>

\* The index of the first closing fence among the lines after the first, or
\* one past the last line when there is none.
ClosingFence(ls) ==
    Least({i \in 2..Len(ls) : ls[i] = <<"backtick", "backtick", "backtick">>} \cup {Len(ls) + 1})

\* C16: a text whose first line is an opening fence yields, as the first
\* block, a CodeBlock without children whose text is the lines between the
\* opening fence and the closing fence (or the end of the text, the block
\* then being the last node), joined with "\n", every line kept; it carries
\* the language attribute exactly when the opening fence names a language;
\* the markdown rendering holds the fence with the language and that text.
C16_CodeBlockVerbatim ==
    (op_pc = "parsed" /\ markdown \in CodeTexts
     /\ lines # <<>> /\ lines[1] \in { <<"backtick", "backtick", "backtick">>, <<"backtick", "backtick", "backtick", "p", "y">> }) =>
        LET close == ClosingFence(lines)
            block == document.children[1]
            language == substr_from(lines[1], 3)
        IN  /\ block.type = "CodeBlock"
            /\ block.children = <<>>
            /\ block.text = JoinLines(SubSeq(lines, 2, close - 1))
            /\ block.attributes = (IF language # <<>>
                                   THEN Put(NoAttributes, <<"l", "a", "n", "g", "u", "a", "g", "e">>, language)
                                   ELSE NoAttributes)
            /\ close > Len(lines) => Len(document.children) = 1
            /\ md_out # NotCalled =>
                  /\ md_out.ok
                  /\ Contains(md_out.value,
                              <<"backtick", "backtick", "backtick">> \o language \o <<"\n">> \o block.text \o <<"\n", "backtick", "backtick", "backtick">>)

\* The fields of a row line: the texts between its pipes, the outer pipes
\* adding none.
FieldsOf(line) ==
    CASE line = <<"|", "a", "|", "b", "|">> -> << <<"a">>, <<"b">> >>
      [] line = <<"|", "1", "|", "2", "|">> -> << <<"1">>, <<"2">> >>
      [] line = <<"a", "|", "b">> -> << <<"a">>, <<"b">> >>

\* The TableCell holding the Text of a field.
CellOf(field) ==
    [MdNode("TableCell", <<>>, 0) EXCEPT !.children = <<MdNode("Text", field, 0)>>]

\* C17: a text of one row line yields a Table of one TableRow whose
\* TableCells are, in order and one for one, the fields of the line: two
\* cells for "|a|b|" and two cells for "a|b".
C17_CellsAreFields ==
    (op_pc = "parsed" /\ Len(lines) = 1 /\ lines[1] \in RowLines) =>
        /\ Len(document.children) = 1
        /\ document.children[1].type = "Table"
        /\ Len(document.children[1].children) = 1
        /\ document.children[1].children[1].children
              = [i \in 1..Len(FieldsOf(lines[1])) |-> CellOf(FieldsOf(lines[1])[i])]

\* The five searches from the cursor p, in the priority order of the
\* tokenizer: bold, italic, inline code, link, image.
SearchesFrom(s, p) ==
    << bold_search(s, p), italic_search(s, p), code_search(s, p),
       link_search(s, p), img_search(s, p) >>

\* The typed node of a match of the pattern of rank k.
TypedNode(k, m) ==
    CASE k = 1 -> MdNode("Bold", m.g1, 0)
      [] k = 2 -> MdNode("Italic", m.g1, 0)
      [] k = 3 -> MdNode("InlineCode", m.g1, 0)
      [] k = 4 -> [MdNode("Link", m.g1, 0) EXCEPT !.attributes =
                      Put(NoAttributes, <<"h", "r", "e", "f">>, m.g2)]
      [] k = 5 -> [MdNode("Image", <<>>, 0) EXCEPT !.attributes =
                      Put(Put(NoAttributes, <<"a", "l", "t">>, m.g1), <<"s", "r", "c">>, m.g2)]

\* The nodes of the span s from the cursor p on when each step takes the
\* pattern of the highest priority that matches anywhere ahead.
RECURSIVE TokensByPriority(_, _)
TokensByPriority(s, p) ==
    IF p >= Len(s) THEN <<>>
    ELSE LET Step(searches) ==
                 LET found == {k \in 1..5 : searches[k].found}
                     Taken(k) ==
                         (IF searches[k].start > p
                          THEN <<MdNode("Text", SubSeq(s, p + 1, searches[k].start), 0)>>
                          ELSE <<>>)
                         \o <<TypedNode(k, searches[k])>>
                         \o TokensByPriority(s, searches[k].end)
                 IN  IF found = {} THEN <<MdNode("Text", substr_from(s, p), 0)>>
                     ELSE Taken(Least(found))
         IN  Step(SearchesFrom(s, p))

\* C18: the inline nodes of a paragraph of one line are those of the steps
\* that each take the highest-priority pattern (bold, italic, inline code,
\* link, image) with a match anywhere between the cursor and the end, flush
\* the text before the match as one Text node, append the typed node and
\* move the cursor to the end of the match, the remainder without a match
\* being one final Text node; a code span standing before a bold span is
\* flushed as text with the bold taken first.
C18_HighestPriorityPatternWins ==
    (op_pc = "parsed" /\ markdown \in InlineTexts /\ markdown # <<>>) =>
        /\ Len(document.children) = 1
        /\ document.children[1].type = "Paragraph"
        /\ document.children[1].children = TokensByPriority(markdown, 0)
        /\ markdown = <<"backtick", "c", "backtick", "*", "*", "b", "*", "*">> =>
              document.children[1].children
                  = <<MdNode("Text", <<"backtick", "c", "backtick">>, 0), MdNode("Bold", <<"b">>, 0)>>
        /\ markdown = <<"[", "l", "]", "(", "u", ")", "*", "i", "*">> =>
              document.children[1].children
                  = <<MdNode("Text", <<"[", "l", "]", "(", "u", ")">>, 0), MdNode("Italic", <<"i">>, 0)>>

\* C18 witness: the code span before the bold span became text.
C18_Witness ==
    /\ op_pc = "parsed"
    /\ markdown = <<"backtick", "c", "backtick", "*", "*", "b", "*", "*">>
    /\ document.children[1].children
           = <<MdNode("Text", <<"backtick", "c", "backtick">>, 0), MdNode("Bold", <<"b">>, 0)>>

\* Whether a text has neither leading nor trailing whitespace.
IsTrimmed(text) ==
    text = <<>> \/ (~isspace(text[1]) /\ ~isspace(text[Len(text)]))

\* Whether the text of every node of a tag tree is trimmed.
RECURSIVE AllTextTrimmed(_)
AllTextTrimmed(n) ==
    /\ IsTrimmed(n.text)
    /\ \A i \in 1..Len(n.children) : AllTextTrimmed(n.children[i])

\* C19: the text html::Deserializer::deserialize stores in a node is
\* trimmed of leading and trailing whitespace, for every text run of an
\* element body, a run followed by a child element included.
C19_TextRunsTrimmed ==
    (op_pc = "deserialized" /\ parsed.ok) => AllTextTrimmed(parsed.node)

\* Whether the text starts with an opening tag that is not terminated: no
\* ">" follows the tag name, or a "/" stands in the tag that the ">" does
\* not follow at once.
RootTagUnterminated(text) ==
    LET gt == ScanUntil(text, 0, {">"})
        slash == ScanUntil(text, 0, {"/"})
    IN  /\ Len(text) >= 2
        /\ text[1] = "<"
        /\ text[2] \notin {"/", ">", " "}
        /\ \/ gt = Len(text)
           \/ (slash < gt /\ slash + 1 # gt)

\* C20: html::Deserializer::deserialize throws on every text whose opening
\* tag is not terminated by ">" or "/>": a text that ends after the tag name
\* or the attributes, and a tag whose "/" the ">" does not follow at once.
C20_UnterminatedTagFails ==
    (op_pc = "deserialized" /\ RootTagUnterminated(html)) => ~parsed.ok

\* Whether every img, hr and br node of a tag tree has neither text nor
\* children.
RECURSIVE VoidElementsEmpty(_)
VoidElementsEmpty(n) ==
    /\ n.tag \in VoidTags => (n.text = <<>> /\ n.children = <<>>)
    /\ \A i \in 1..Len(n.children) : VoidElementsEmpty(n.children[i])

\* C21: in every tree html::Deserializer::deserialize returns, a node whose
\* tag is img, hr or br has no children and an empty text.
C21_VoidElementsHaveNoBody ==
    (op_pc = "deserialized" /\ parsed.ok) => VoidElementsEmpty(parsed.node)

\* The text with every "\r\n" line ending written as "\n".
RECURSIVE WithLfEndings(_)
WithLfEndings(text) ==
    IF text = <<>> THEN <<>>
    ELSE IF Len(text) >= 2 /\ text[1] = "\r" /\ text[2] = "\n"
    THEN WithLfEndings(Tail(text))
    ELSE <<Head(text)>> \o WithLfEndings(Tail(text))

\* C22: a text parses to the tree that the same text written with "\n"
\* line endings parses to: the lines are split with the line terminators
\* stripped, "\r\n" as well as "\n".
C22_LineEndingsStripped ==
    op_pc = "parsed" => document = md_deserialize(WithLfEndings(markdown))

\* The lines of a text: the pieces between its "\n".
RECURSIVE LinesOf(_)
LinesOf(text) ==
    LET Cut(e) ==
            IF e = Len(text) THEN <<text>>
            ELSE <<SubSeq(text, 1, e)>> \o LinesOf(substr_from(text, e + 1))
    IN  Cut(ScanUntil(text, 0, {"\n"}))

\* The tags whose children stay in the flow of the line.
FlowTags == { <<"s", "t", "r", "o", "n", "g">>, <<"e", "m">>, <<"a">>, <<"c", "o", "d", "e">>, <<"s", "p", "a", "n">> }

\* The renderings of the children at the given depth, one after another.
RECURSIVE ChildrenInFlow(_, _)
ChildrenInFlow(children, depth) ==
    IF children = <<>> THEN <<>>
    ELSE serialize(Head(children), depth) \o ChildrenInFlow(Tail(children), depth)

InlineStepsAdvance ==
    \A i \in 1..Len(lines) :
        \A p \in 0..(Len(lines[i]) - 1) :
            \E step \in {inline_step(lines[i], p)} :
                /\ step.nodes # <<>>
                /\ step.pos > p
                /\ step.pos <= Len(lines[i])

\* Every parse_node call at a "<" of the markup either throws or returns
\* with the cursor moved forward, at most to the end.
ParseNodeConsumes ==
    \A p \in 0..(Len(html) - 1) :
        At(html, p) = "<" =>
            \E r \in {parse_node(html, p)} :
                r.ok => (r.pos > p /\ r.pos <= Len(html))

\* A parse_block call moves the line cursor forward by at least one line,
\* at most to the end of the lines.
CursorAdvances ==
    (op_pc = "parsing" /\ op_pc' = "parsing") => (pos' > pos /\ pos' <= Len(lines))

\* Every pending call has returned.
AllReturned ==
    \/ op_pc = "deserialized"
    \/ op_pc = "parsed" /\ md_out # NotCalled /\ html_out # NotCalled

\* The pending parse_block call returns a cursor past the line it started on,
\* so a pending iteration of deserialize's loop is a step that changes pos.
BlockStepAdvances ==
    (op_pc = "parsing" /\ pos < Len(lines)) =>
        \E b \in {parse_block(lines, pos, document)} :
            b.pos > pos /\ b.pos <= Len(lines)

\* C24: every operation terminates.  Each parse_block call advances the
\* line cursor by at least one line, each iteration of the inline tokenizer
\* moves its cursor forward or to the end, each parse_node call at a tag
\* consumes at least one character or throws, and every run of the parsers
\* and renderers reaches the state where all calls have returned.
C24_EveryOperationTerminates ==
    /\ [](InlineStepsAdvance /\ ParseNodeConsumes /\ BlockStepAdvances)
    /\ [][CursorAdvances]_vars
    /\ <>AllReturned

\* C24 witness: a text of two blocks was parsed to the end and rendered.
C24_Witness ==
    /\ op_pc = "parsed"
    /\ Len(lines) = 2
    /\ Len(document.children) = 2
    /\ pos = 2
    /\ md_out.ok /\ html_out.ok


\* The markdown renderings of the nodes parse_inline produces for a span,
\* written one after the other.
InlineRendering(s) ==
    serialize_markdown_children(
        parse_inline(s, MdNode("Paragraph", <<>>, 0)).children, 0)

\* C25: inline tokenization is lossless.  For every line of the text taken as
\* a span, the markdown renderings of the nodes parse_inline produces for it,
\* concatenated in order, are exactly the span.
C25_InlineTokenizationLossless ==
    \A i \in 1..Len(lines) :
        lines[i] # <<>> => InlineRendering(lines[i]) = Returned(lines[i])

\* C25 witness: a one-line text was parsed into a Paragraph of three inline
\* nodes, the ones parse_inline gives for the line, a Bold and an Image
\* among them.
C25_Witness ==
    /\ op_pc = "parsed"
    /\ Len(lines) = 1
    /\ Len(document.children) = 1
    /\ document.children[1].type = "Paragraph"
    /\ document.children[1].children
           = parse_inline(lines[1], MdNode("Paragraph", <<>>, 0)).children
    /\ Len(document.children[1].children) = 3
    /\ \E i, j \in 1..3 :
          /\ document.children[1].children[i].type = "Bold"
          /\ document.children[1].children[j].type = "Image"

\* Every Link node of the tree has an href attribute and every Image node
\* has a src and an alt attribute.
RECURSIVE LinksAndImagesComplete(_)
LinksAndImagesComplete(n) ==
    /\ n.type = "Link" => <<"h", "r", "e", "f">> \in DOMAIN n.attributes
    /\ n.type = "Image" => <<"s", "r", "c">> \in DOMAIN n.attributes /\ <<"a", "l", "t">> \in DOMAIN n.attributes
    /\ \A i \in 1..Len(n.children) : LinksAndImagesComplete(n.children[i])

\* The number of nodes of the given type in the tree.
RECURSIVE CountOfType(_, _)
RECURSIVE CountInChildren(_, _)
CountInChildren(children, type) ==
    IF children = <<>> THEN 0
    ELSE CountOfType(Head(children), type) + CountInChildren(Tail(children), type)
CountOfType(n, type) ==
    (IF n.type = type THEN 1 ELSE 0) + CountInChildren(n.children, type)

\* C26: in the tree markdown::Deserializer::deserialize builds, at every
\* iteration and on return, every Link node has an href attribute and every
\* Image node has src and alt attributes, and both renderings of the
\* returned tree are values, never an exception.
C26_ParsedTreesRender ==
    /\ op_pc \in {"parsing", "parsed"} => LinksAndImagesComplete(document)
    /\ op_pc = "parsed" =>
          /\ markdown_of(document).ok /\ html_of(document).ok
          /\ md_out # NotCalled => md_out.ok
          /\ html_out # NotCalled => html_out.ok

\* C26 witness: a parsed tree with a Link and an Image was rendered both
\* ways.
C26_Witness ==
    /\ op_pc = "parsed"
    /\ CountOfType(document, "Link") > 0
    /\ CountOfType(document, "Image") > 0
    /\ md_out # NotCalled /\ html_out # NotCalled

\* Every Image node of the tree has an empty alt attribute.
RECURSIVE ImagesWithoutAlt(_)
ImagesWithoutAlt(n) ==
    /\ n.type = "Image" => at(n.attributes, <<"a", "l", "t">>) = Returned(<<>>)
    /\ \A i \in 1..Len(n.children) : ImagesWithoutAlt(n.children[i])

\* C27: every Image node in the tree markdown::Deserializer::deserialize
\* builds has an empty alt attribute; an image literal with alt text is
\* taken by the link pattern, which is tried first.
C27_ImagesHaveEmptyAlt ==
    op_pc \in {"parsing", "parsed"} => ImagesWithoutAlt(document)

\* C27 witness: the returned tree holds an Image node.
C27_Witness ==
    /\ op_pc = "parsed"
    /\ CountOfType(document, "Image") > 0
    /\ CountOfType(document, "Link") > 0

\* Node n has a tag that is not self-closing, no text and no children.
IsBareElement(n) ==
    /\ n.tag # <<>> /\ n.tag \notin self_closing_tags
    /\ n.text = <<>> /\ n.children = <<>>

\* The node with every attribute value passed through escape_html.
WithEscapedValues(n) ==
    [n EXCEPT !.attributes = [k \in DOMAIN n.attributes |-> escape_html(n.attributes[k])]]

\* The name holds no upper-case letter: parse_node's tolower leaves it as it is.
IsFolded(name) == \A i \in 1..Len(name) : tolower(name[i]) = name[i]
HasFoldedNames(n) ==
    IsFolded(n.tag) /\ \A k \in DOMAIN n.attributes : IsFolded(k)

\* C28 as stated: html::Deserializer::deserialize applied to the
\* serialization of any childless, textless node with a non-self-closing tag
\* returns the node with the same tag and attribute keys and, for each key,
\* the value passed through escape_html.
C28_AttributeValuesStoredEscaped ==
    (op_pc = "serialized" /\ IsBareElement(node)) =>
        \E r \in {html_deserialize(serialized)} :
            r.ok /\ r.node = WithEscapedValues(node)

\* C28: html::Deserializer::deserialize applied to the serialization of a
\* childless, textless node with a non-self-closing tag, whose tag and
\* attribute keys hold no upper-case letter, returns the node with the same
\* tag and attribute keys and, for each key, the value passed through
\* escape_html: attribute values are stored as written, without entity
\* decoding.
C28_FoldedNamesValuesStoredEscaped ==
    (op_pc = "serialized" /\ IsBareElement(node) /\ HasFoldedNames(node)) =>
        \E r \in {html_deserialize(serialized)} :
            r.ok /\ r.node = WithEscapedValues(node)

\* C28 witness: a bare element with lower-case names and an attribute value
\* holding a reserved character was serialized; the parser returns a
\* different node.
C28_Witness ==
    /\ op_pc = "serialized" /\ IsBareElement(node) /\ HasFoldedNames(node)
    /\ \E k \in DOMAIN node.attributes : escape_html(node.attributes[k]) # node.attributes[k]
    /\ html_deserialize(serialized).ok
    /\ html_deserialize(serialized).node # node

\* Bodies made of text pieces and br children: the pieces, and the markup
\* of a div that holds them.
FlatPieces == { <<"x">>, <<" ">>, <<"<", "b", "r", "/", ">">> }
FlatDiv(pieces) == <<"<", "d", "i", "v", ">">> \o Concat(pieces) \o <<"<", "/", "d", "i", "v", ">">>

\* The text chunks of a body: the text pieces between one child and the next.
RECURSIVE ChunksOf(_, _)
ChunksOf(pieces, chunk) ==
    IF pieces = <<>> THEN <<chunk>>
    ELSE IF Head(pieces) = <<"<", "b", "r", "/", ">">> THEN <<chunk>> \o ChunksOf(Tail(pieces), <<>>)
    ELSE ChunksOf(Tail(pieces), chunk \o Head(pieces))

\* The trimmed, decoded text of the last non-empty chunk; empty without one.
LastChunkText(pieces) ==
    LET NonEmpty(chunks) == SelectSeq(chunks, LAMBDA c : c # <<>>)
        Text(chunks) ==
            IF chunks = <<>> THEN <<>>
            ELSE unescape_html(trimmed_text(chunks[Len(chunks)]))
    IN  Text(NonEmpty(ChunksOf(pieces, <<>>)))

\* The br children of a body, in order.
BrChildren(pieces) ==
    [i \in 1..Len(SelectSeq(pieces, LAMBDA t : t = <<"<", "b", "r", "/", ">">>)) |->
        HtmlNode(<<"b", "r">>, <<>>, NoAttributes, <<>>)]

\* C29: html::Deserializer::deserialize keeps one text value for an element,
\* the trimmed text of the last non-empty text chunk of its body, whether
\* the chunk precedes a child or ends the body (a whitespace-only chunk
\* leaves the text empty), and keeps the children in order.
C29_LastChunkIsTheText ==
    op_pc = "deserialized" =>
        \A pieces \in Strings(FlatPieces, MaxTokens) :
            html = FlatDiv(pieces) =>
                /\ parsed.ok
                /\ parsed.node.text = LastChunkText(pieces)
                /\ parsed.node.children = BrChildren(pieces)

\* C30: after every handled request, and between requests, the counter
\* current_cache_size_ is the sum of the content sizes of the entries of
\* file_cache_, whatever the requests, the file writes and the clock did.
C30_CacheSizeIsSumOfEntries ==
    op_pc = "http" =>
        current_cache_size_ = ContentSize(file_cache_, DOMAIN file_cache_)
====
